---- MODULE Spec2Model ----
(***************************************************************************)
(* A model of github.com/pborman/options: the Flags overlay value          *)
(* (Flags.Set, Flags.Rescan, mergemap, expand), the option registrar       *)
(* (register, Validate, RegisterSet, Register, parseTag) and the           *)
(* SimpleDecoder.                                                          *)
(*                                                                         *)
(* Go strings are sequences of one-character strings, so that the string   *)
(* functions of the code (expand, parseTag, the value parsers, the sort of *)
(* the unknown names) are computed and not assumed.                        *)
(***************************************************************************)
EXTENDS Integers, Sequences, FiniteSets, TLC

-----------------------------------------------------------------------------
(* Bounds *)

\* number of operations (registrations, parses, Set and Rescan calls, field
\* assignments) of one run
MaxOps == 4

\* number of sets the caller binds to the Flags by hand
MaxSets == 3

\* number of lines of the data given to SimpleDecoder alone
MaxLines == 3

\* number of pieces of the strings given to expand alone
MaxPieces == 4
MaxTokens == 3

\* the largest number among the values given to the type switch alone
MaxNum == 42

\* number of goroutines that use the decoder registry at once
MaxGoroutines == 2

-----------------------------------------------------------------------------
(* Strings *)

\* the characters that occur in the model, in byte order
Alphabet ==
  << "NUL", " ", "\"", "#", "$", "-", ".",
     "0", "1", "2", "3", "4", "5", "6", "7", "8", "9", ":", "=", "?",
     "A", "B", "C", "D", "E", "F", "G", "H", "I", "J", "K", "L", "M", "N",
     "O", "P", "Q", "R", "S", "T", "U", "V", "W", "X", "Y", "Z", "\\",
     "a", "b", "c", "d", "e", "f", "g", "h", "i", "j", "k", "l", "m", "n",
     "o", "p", "q", "r", "s", "t", "u", "v", "w", "x", "y", "z", "{", "}" >>

\* the place of each character in the byte order (@@ makes it a table)
CodeOf ==
  [c \in {Alphabet[i] : i \in 1..Len(Alphabet)} |->
     CHOOSE i \in 1..Len(Alphabet) : Alphabet[i] = c] @@ <<>>

Code(c) == CodeOf[c]

\* s[a:b] of Go
Slice(s, a, b) == SubSeq(s, a + 1, b)

\* s[a:] of Go
From(s, a) == SubSeq(s, a + 1, Len(s))

HasPrefixAt(s, i, pat) ==
  /\ i + Len(pat) <= Len(s)
  /\ \A j \in 1..Len(pat) : s[i + j] = pat[j]

\* strings.Index: the 0-based position of the first pat in s, or -1
Index(s, pat) ==
  LET hits == {i \in 0..Len(s) : HasPrefixAt(s, i, pat)}
  IN IF hits = {} THEN -1 ELSE CHOOSE i \in hits : \A j \in hits : i <= j

RECURSIVE TrimLeft(_)
TrimLeft(s) == IF s # <<>> /\ s[1] = " " THEN TrimLeft(Tail(s)) ELSE s

RECURSIVE TrimRight(_)
TrimRight(s) ==
  IF s # <<>> /\ s[Len(s)] = " " THEN TrimRight(SubSeq(s, 1, Len(s) - 1)) ELSE s

\* strings.TrimSpace
TrimSpace(s) == TrimRight(TrimLeft(s))

\* the order of Go's string comparison (bytewise, a proper prefix is smaller)
RECURSIVE StrLess(_, _)
StrLess(a, b) ==
  IF b = <<>> THEN FALSE
  ELSE IF a = <<>> THEN TRUE
  ELSE IF a[1] # b[1] THEN Code(a[1]) < Code(b[1])
  ELSE StrLess(Tail(a), Tail(b))

\* sort.Strings of a set of distinct strings
RECURSIVE SortStrings(_)
SortStrings(S) ==
  IF S = {} THEN <<>>
  ELSE LET lo == CHOOSE a \in S : \A b \in S \ {a} : StrLess(a, b)
       IN <<lo>> \o SortStrings(S \ {lo})

-----------------------------------------------------------------------------
(* Environment Expander *)

\* the process environment: V1 is set, V3 is set to the empty string, P names
\* the overlay file A, Q holds text that looks like a variable reference
Environ ==
  (<<"P">> :> <<"A">>) @@
  (<<"Q">> :> <<"$", "{", "P", "}">>) @@
  (<<"V", "1">> :> <<"v", "a", "l", "u", "e", "1">>) @@
  (<<"V", "3">> :> <<>>)

\* os.Getenv
Getenv(name) == IF name \in DOMAIN Environ THEN Environ[name] ELSE <<>>

\* expand as it would be if a variable that is set to the empty string
\* counted as set
RECURSIVE expandLoopSet(_, _)
expandLoopSet(parts, s) ==
  LET x == Index(s, <<"$", "{">>)
  IN IF x < 0 \/ x + 2 = Len(s) THEN parts \o s
     ELSE IF s[x + 3] = "$" THEN expandLoopSet(parts \o Slice(s, 0, x + 2), From(s, x + 3))
     ELSE LET parts1 == parts \o Slice(s, 0, x)
              s1 == From(s, x + 2)
              y == Index(s1, <<"}">>)
          IN IF y < 0 THEN parts1 \o <<"$", "{">> \o s1
             ELSE LET name0 == Slice(s1, 0, y)
                      s2 == From(s1, y + 1)
                      z == Index(name0, <<":", "-">>)
                      name == IF z >= 0 THEN Slice(name0, 0, z) ELSE name0
                      dflt == IF z >= 0 THEN From(name0, z + 2) ELSE <<>>
                      value == IF name \in DOMAIN Environ THEN Environ[name] ELSE dflt
                  IN expandLoopSet(parts1 \o value, s2)

\* expand as it would be if it scanned the text it has substituted
RECURSIVE expandLoopRescan(_, _)
expandLoopRescan(parts, s) ==
  LET x == Index(s, <<"$", "{">>)
  IN IF x < 0 \/ x + 2 = Len(s) THEN parts \o s
     ELSE IF s[x + 3] = "$" THEN expandLoopRescan(parts \o Slice(s, 0, x + 2), From(s, x + 3))
     ELSE LET parts1 == parts \o Slice(s, 0, x)
              s1 == From(s, x + 2)
              y == Index(s1, <<"}">>)
          IN IF y < 0 THEN parts1 \o <<"$", "{">> \o s1
             ELSE LET name0 == Slice(s1, 0, y)
                      s2 == From(s1, y + 1)
                      z == Index(name0, <<":", "-">>)
                      name == IF z >= 0 THEN Slice(name0, 0, z) ELSE name0
                      dflt == IF z >= 0 THEN From(name0, z + 2) ELSE <<>>
                      env == Getenv(name)
                      value == IF env # <<>> THEN env ELSE dflt
                  IN expandLoopRescan(parts1, value \o s2)

RECURSIVE expandLoop(_, _)
expandLoop(parts, s) ==
  LET x == Index(s, <<"$", "{">>)
  IN IF x < 0 \/ x + 2 = Len(s) THEN parts \o s
     ELSE IF s[x + 3] = "$" THEN expandLoop(parts \o Slice(s, 0, x + 2), From(s, x + 3))
     ELSE LET parts1 == parts \o Slice(s, 0, x)
              s1 == From(s, x + 2)
              y == Index(s1, <<"}">>)
          IN IF y < 0 THEN parts1 \o <<"$", "{">> \o s1
             ELSE LET name0 == Slice(s1, 0, y)
                      s2 == From(s1, y + 1)
                      z == Index(name0, <<":", "-">>)
                      name == IF z >= 0 THEN Slice(name0, 0, z) ELSE name0
                      dflt == IF z >= 0 THEN From(name0, z + 2) ELSE <<>>
                      env == Getenv(name)
                      value == IF env # <<>> THEN env ELSE dflt
                  IN expandLoop(parts1 \o value, s2)

expand(s) == expandLoop(<<>>, s)

-----------------------------------------------------------------------------
(* Tag Parser *)

\* argPrefix returns the leading dashes in a
RECURSIVE argPrefix(_)
argPrefix(a) ==
  IF a # <<>> /\ a[1] = "-" THEN <<"-">> \o argPrefix(Tail(a)) ELSE <<>>

\* nextOption: the word s is split at the "=" found at y
paramAt(s, y, rest) ==
  IF y >= 0 THEN [option |-> Slice(s, 0, y), param |-> From(s, y + 1), rest |-> rest]
  ELSE [option |-> s, param |-> <<>>, rest |-> rest]

\* nextOption: s is split at the space found at x
optionAt(s, x) ==
  IF x >= 0
  THEN paramAt(Slice(s, 0, x), Index(Slice(s, 0, x), <<"=">>), TrimSpace(From(s, x)))
  ELSE paramAt(s, Index(s, <<"=">>), <<>>)

\* nextOption: the next option, its optional parameter and the rest of s
nextOption(s) ==
  IF s = <<>> \/ s[1] # "-" THEN [option |-> <<>>, param |-> <<>>, rest |-> s]
  ELSE optionAt(s, Index(s, <<" ">>))

TagNil == [res |-> "nil"]
TagErr(msg) == [res |-> "err", msg |-> msg]

RECURSIVE parseTagLoop(_, _)

\* parseTag: the switch on the prefix pre of the name arg
parseName(o, arg, pre, next) ==
  IF pre = <<"-">>
  THEN IF o.short # "" THEN TagErr("too many short names")
       ELSE IF Len(arg) > 2 THEN TagErr("invalid short name")
       ELSE parseTagLoop([o EXCEPT !.short = arg[2]], next)
  ELSE IF pre = <<"-", "-">>
  THEN IF o.long # <<>> THEN TagErr("too many long names")
       ELSE parseTagLoop([o EXCEPT !.long = From(arg, 2)], next)
  ELSE TagErr("must not start with ---")

\* parseTag: the body of the loop for what nextOption returned
parseOption(o, arg, param, next) ==
  IF arg = <<>> \/ arg = <<"-">> \/ arg = <<"-", "-">>
  THEN IF param # <<>> THEN TagErr("missing option name")
       ELSE IF o.long = <<>> /\ o.short = ""
            THEN IF next # <<>> THEN TagErr("missing option name") ELSE TagNil
            ELSE [o EXCEPT !.help = next]
  ELSE IF param # <<>> /\ o.param # <<>> THEN TagErr("multiple parameter names")
  ELSE parseName(IF param # <<>> THEN [o EXCEPT !.param = param] ELSE o,
                 arg, argPrefix(arg), next)

parseNext(o, n) == parseOption(o, n.option, n.param, n.rest)

\* o is the optTag built so far; short = "" stands for the rune 0
parseTagLoop(o, next) == parseNext(o, nextOption(next))

\* parseTag after tag = strings.TrimSpace(tag)
parseTrimmed(t) ==
  IF t = <<>> THEN TagNil
  ELSE parseTagLoop([res |-> "tag", long |-> <<>>, short |-> "",
                     param |-> <<>>, help |-> <<>>], t)

parseTag(tag) == parseTrimmed(TrimSpace(tag))

-----------------------------------------------------------------------------
(* Overlay trees: map[string]interface{} *)

\* A tree is a function from keys to values.  A value is one of
\*   [t |-> "str", s |-> chars]      string
\*   [t |-> "num", n |-> Nat]        a number (float64, int, ...)
\*   [t |-> "bool", b |-> BOOLEAN]   bool
\*   [t |-> "tm", V |-> chars]       *TM of the tests: a TextMarshaler (and Stringer)
\*   [t |-> "st", V |-> chars]       *S of the tests: a Stringer
\*   [t |-> "struct"]                a value of any other type
\*   [t |-> "map", m |-> tree]       a nested map[string]interface{}
\* The nil map and the empty map are both the empty function: the code only
\* reads a nil map, except in mergemap, which replaces it by an empty one.
EmptyTree == <<>>

Str(s) == [t |-> "str", s |-> s]
Map(m) == [t |-> "map", m |-> m]

\* m with m[k] = v
Put(m, k, v) == [x \in DOMAIN m \cup {k} |-> IF x = k THEN v ELSE m[x]]

\* delete(m, k)
Delete(m, k) == [x \in DOMAIN m \ {k} |-> m[x]]

\* mergemap(nil, vm): the copy that mergemap makes of a value of old
RECURSIVE copyValue(_)
copyValue(v) ==
  IF v.t = "map" THEN Map([k \in DOMAIN v.m |-> copyValue(v.m[k])]) ELSE v

\* mergemap as it would be if an entry of new were kept when old has the key
mergemapKeep(new, old) ==
  [k \in DOMAIN new \cup DOMAIN old |->
     IF k \in DOMAIN new THEN new[k] ELSE copyValue(old[k])]

\* mergemap merges the entries in old into new and returns new
mergemap(new, old) ==
  [k \in DOMAIN new \cup DOMAIN old |->
     IF k \in DOMAIN old THEN copyValue(old[k]) ELSE new[k]]

-----------------------------------------------------------------------------
(* SimpleDecoder.  The data of a file is the sequence of its lines. *)

\* bytes.TrimSpace(data) is empty
IsBlank(data) == \A i \in 1..Len(data) : TrimSpace(data[i]) = <<>>

\* the loop of unescape: p is the text kept so far
RECURSIVE unescapeLoop(_, _, _)
unescapeLoop(line, escape, p) ==
  IF line = <<>> THEN p
  ELSE LET c == line[1]
       IN IF escape THEN unescapeLoop(Tail(line), FALSE, Append(p, c))
          ELSE IF c = "\\" THEN unescapeLoop(Tail(line), TRUE, p)
          ELSE IF c = "#" THEN p
          ELSE unescapeLoop(Tail(line), FALSE, Append(p, c))

unescape(line0) ==
  LET line == TrimLeft(line0)
  IN IF line = <<>> \/ line[1] = "#" THEN <<>>
     ELSE TrimSpace(unescapeLoop(line, FALSE, <<>>))

\* strings.Split(s, ".")
RECURSIVE SplitDot(_)
SplitDot(s) ==
  LET x == Index(s, <<".">>)
  IN IF x < 0 THEN <<s>> ELSE <<Slice(s, 0, x)>> \o SplitDot(From(s, x + 1))

\* the descent along fields and the final assignment m[fields[0]] = value
RECURSIVE setField(_, _, _)
setField(m, fields, value) ==
  LET k == fields[1]
  IN IF Len(fields) = 1 THEN [ok |-> TRUE, m |-> Put(m, k, Str(value))]
     ELSE IF k \notin DOMAIN m
     THEN [ok |-> TRUE,
           m |-> Put(m, k, Map(setField(EmptyTree, Tail(fields), value).m))]
     ELSE IF m[k].t = "map"
     THEN LET r == setField(m[k].m, Tail(fields), value)
          IN IF r.ok THEN [ok |-> TRUE, m |-> Put(m, k, Map(r.m))] ELSE r
     ELSE [ok |-> FALSE, err |-> "conflict on field", field |-> k]

\* the loop over the lines; n is the number of lines already decoded
RECURSIVE simpleLoop(_, _, _)
simpleLoop(m, data, n) ==
  IF n = Len(data) THEN [ok |-> TRUE, m |-> m]
  ELSE LET line == unescape(data[n + 1])
           x == Index(line, <<"=">>)
           name == TrimSpace(Slice(line, 0, x))
           value0 == TrimSpace(From(line, x + 1))
           e == Len(value0)
           value == IF e > 1 /\ value0[1] = "\"" /\ value0[e] = "\""
                    THEN Slice(value0, 1, e - 1) ELSE value0
       IN IF line = <<>> THEN simpleLoop(m, data, n + 1)
          ELSE IF x < 0 THEN [ok |-> FALSE, err |-> "missing value", line |-> n + 1]
          ELSE IF x = 0 THEN [ok |-> FALSE, err |-> "missing name", line |-> n + 1]
          ELSE IF Index(name, <<" ">>) >= 0
          THEN [ok |-> FALSE, err |-> "space in name", line |-> n + 1]
          ELSE LET r == setField(m, SplitDot(name), value)
               IN IF r.ok THEN simpleLoop(r.m, data, n + 1) ELSE r

SimpleDecoder(data) == simpleLoop(EmptyTree, data, 0)

-----------------------------------------------------------------------------
(* Option values: the Set method of the getopt.Value behind each option *)

Digits == <<"0", "1", "2", "3", "4", "5", "6", "7", "8", "9">>

IsDigit(c) == \E i \in 1..10 : Digits[i] = c

DigitVal(c) == (CHOOSE i \in 1..10 : Digits[i] = c) - 1

RECURSIVE digitsVal(_, _)
digitsVal(s, acc) ==
  IF s = <<>> THEN acc ELSE digitsVal(Tail(s), 10 * acc + DigitVal(s[1]))

\* strconv.Atoi: an optional sign and one or more decimal digits
Atoi(s) ==
  LET neg == s # <<>> /\ s[1] = "-"
      d == IF neg THEN Tail(s) ELSE s
  IN IF d = <<>> \/ \E i \in 1..Len(d) : ~IsDigit(d[i])
     THEN [ok |-> FALSE, n |-> 0]
     ELSE [ok |-> TRUE, n |-> IF neg THEN 0 - digitsVal(d, 0) ELSE digitsVal(d, 0)]

\* fmt.Sprintf("%v", n) of a number without a fraction
RECURSIVE Itoa(_)
Itoa(n) == IF n < 10 THEN <<Digits[n + 1]>> ELSE Itoa(n \div 10) \o <<Digits[(n % 10) + 1]>>

BoolTrue == { <<>>, <<"1">>, <<"t", "r", "u", "e">>, <<"o", "n">>, <<"t">> }
BoolFalse == { <<"0">>, <<"f", "a", "l", "s", "e">>, <<"o", "f", "f">>, <<"f">> }

\* myType.Set of the user-type test: FILE:LINE with LINE a positive integer
myTypeSet(old, s) ==
  LET x == Index(s, <<":">>)
      a == Atoi(From(s, x + 1))
  IN IF x < 0 THEN [ok |-> FALSE, v |-> old, err |-> "errFormat"]
     ELSE IF a.n < 1 \/ ~a.ok THEN [ok |-> FALSE, v |-> old, err |-> "errLine"]
     ELSE [ok |-> TRUE, v |-> [File |-> Slice(s, 0, x), Line |-> a.n]]

\* Value.Set(s, o) for an option of the given kind whose field holds old; kinds
\* "flags" and "help" are handled by Flags.Set and Help.Set; a float is given
\* whole numbers only; the Set of a list appends
valueSet(kind, old, s) ==
  CASE kind = "string" -> [ok |-> TRUE, v |-> s]
    [] kind \in {"int", "float"} ->
         IF Atoi(s).ok THEN [ok |-> TRUE, v |-> Atoi(s).n]
         ELSE [ok |-> FALSE, v |-> old, err |-> "invalid int"]
    [] kind = "bool" ->
         IF s \in BoolTrue THEN [ok |-> TRUE, v |-> TRUE]
         ELSE IF s \in BoolFalse THEN [ok |-> TRUE, v |-> FALSE]
         ELSE [ok |-> FALSE, v |-> old, err |-> "invalid bool"]
    [] kind = "loc" -> myTypeSet(old, s)
    [] kind = "list" -> [ok |-> TRUE, v |-> Append(old, s)]
    [] OTHER -> [ok |-> TRUE, v |-> old]

-----------------------------------------------------------------------------
(* Overlay Engine: Flags.Set *)

\* The getopt sets: the standard CommandLine, a second set for the options of
\* a sub-command, and the set that Validate creates and throws away.
SetIds == {"cl", "s2", "tmp"}

\* An option of a set is [long, short, kind, fld, count, cmd]: its names
\* (short = "" for none), the kind of its value, the struct field the value
\* points to and the number of times it was seen on the command line; cmd
\* records the text the command line gave it last (history, not read by the
\* program).
\* A getopt.Option is [set, i]: the i-th option registered in the set.
NilOpt == [set |-> "nil", i |-> 0]

\* Option.Seen
Seen(sets, o) == sets[o.set][o.i].count > 0

NoErr == [kind |-> "nil"]

\* rescanFlags is the magic path name that makes Set re-scan without reading
rescanFlags == <<"NUL", "NUL", "NUL">>

\* the type switch as it would be if the case of the Stringer came first
valueTextStringer(v) ==
  CASE v.t \in {"tm", "st"} -> [r |-> "ok", s |-> v.V]
    [] v.t = "str" -> [r |-> "ok", s |-> v.s]
    [] v.t = "num" -> [r |-> "ok", s |-> Itoa(v.n)]
    [] v.t = "bool" ->
         [r |-> "ok", s |-> IF v.b THEN <<"t", "r", "u", "e">>
                            ELSE <<"f", "a", "l", "s", "e">>]
    [] OTHER -> [r |-> "bad"]

\* the text handed to Value.Set for a value found in the tree (the type switch
\* of the visitor): r = "skip" when MarshalText fails, "bad" for the default case
valueText(v) ==
  CASE v.t = "tm" ->
         IF v.V = <<"e", "r", "r", "o", "r">> THEN [r |-> "skip"]
         ELSE [r |-> "ok", s |-> <<":">> \o v.V]
    [] v.t = "st" -> [r |-> "ok", s |-> v.V]
    [] v.t = "str" -> [r |-> "ok", s |-> v.s]
    [] v.t = "num" -> [r |-> "ok", s |-> Itoa(v.n)]
    [] v.t = "bool" ->
         [r |-> "ok", s |-> IF v.b THEN <<"t", "r", "u", "e">>
                            ELSE <<"f", "a", "l", "s", "e">>]
    [] OTHER -> [r |-> "bad"]

\* the first lines of Set as they would be if the test of the registration
\* came first
setEntryRegFirst(f, sets, value, opt) ==
  IF opt = NilOpt /\ f.opt = NilOpt THEN "notreg"
  ELSE IF value = <<>> \/ value = <<"?">> THEN "nil"
  ELSE IF opt # NilOpt /\ ~Seen(sets, opt) THEN "nil"
  ELSE "go"

\* the first lines of Set as they would be if a Flags that is no option
\* made Set a no-op
setEntryUnreg(f, sets, value, opt) ==
  IF value = <<>> \/ value = <<"?">> THEN "nil"
  ELSE IF opt = NilOpt THEN (IF f.opt = NilOpt THEN "nil" ELSE "go")
  ELSE IF ~Seen(sets, opt) THEN "nil"
  ELSE "go"

\* the first lines of Set as they would be if the option's Seen were not
\* looked at
setEntryAnyOpt(f, sets, value, opt) ==
  IF value = <<>> \/ value = <<"?">> THEN "nil"
  ELSE IF opt = NilOpt THEN (IF f.opt = NilOpt THEN "notreg" ELSE "go")
  ELSE "go"

\* the first lines of Flags.Set, after expand: "nil" and "notreg" return at
\* once, "go" goes on with the option opt
setEntry(f, sets, value, opt) ==
  IF value = <<>> \/ value = <<"?">> THEN "nil"
  ELSE IF opt = NilOpt THEN (IF f.opt = NilOpt THEN "notreg" ELSE "go")
  ELSE IF ~Seen(sets, opt) THEN "nil"
  ELSE "go"

\* (h *Help) Set(value, opt) for an option that was not seen; for one that
\* was, it prints the usage and may end the program
helpSet(sets, opt) == IF ~Seen(sets, opt) THEN "nil" ELSE "usage"

\* the visitor as it would be if it went on after a value of an unsupported
\* type
visitOptionOn(st, f, sets, k, sid, i, path) ==
  LET o == sets[sid][i]
      byLong == o.long # <<>> /\ o.long \in DOMAIN st.m
      byShort == o.short # "" /\ <<o.short>> \in DOMAIN st.m
      n == IF byLong THEN o.long ELSE <<o.short>>
      t == valueText(st.m[n])
      m1 == Delete(st.m, n)
      r == valueSet(o.kind, st.fields[o.fld], t.s)
  IN IF ~byLong /\ ~byShort THEN st
     ELSE IF t.r = "skip" THEN [st EXCEPT !.m = m1, !.tmerr = Append(@, n)]
     ELSE IF t.r = "bad"
     THEN [st EXCEPT !.m = m1,
             !.err = [kind |-> "notstr", path |-> path, key |-> n,
                      at |-> [b |-> k, set |-> sid, i |-> i]]]
     ELSE IF o.count > 0 \/ o.kind \in {"flags", "help"} THEN [st EXCEPT !.m = m1]
     ELSE [st EXCEPT !.m = m1,
             !.fields = [@ EXCEPT ![o.fld] = r.v],
             !.calls = Append(@, [b |-> k, set |-> sid, i |-> i, key |-> n,
                                  s |-> t.s, ok |-> r.ok])]

\* the visitor that Set passes to VisitAll, applied to option i of set sid,
\* the k-th element of f.Sets;
\* st = [m, fields, err, calls, tmerr]: the map the set reads, the struct
\* fields, the visitor's err, the Value.Set calls made so far (for the option
\* i of the set sid, the k-th of f.Sets, with the text s of the key) and the keys
\* whose MarshalText returned an error (calls, tmerr and the at of an error
\* are history).  The err that MarshalText returns is assigned to a variable
\* declared in the case clause, so the visitor's err stays nil.
visitOption(st, f, sets, k, sid, i, path) ==
  LET o == sets[sid][i]
      byLong == o.long # <<>> /\ o.long \in DOMAIN st.m
      byShort == o.short # "" /\ <<o.short>> \in DOMAIN st.m
      n == IF byLong THEN o.long ELSE <<o.short>>
      t == valueText(st.m[n])
      m1 == Delete(st.m, n)
  IN IF st.err # NoErr THEN st
     ELSE IF ~byLong /\ ~byShort THEN st
     ELSE IF t.r = "skip" THEN [st EXCEPT !.m = m1, !.tmerr = Append(@, n)]
     ELSE IF t.r = "bad"
     THEN [st EXCEPT !.m = m1,
             !.err = [kind |-> "notstr", path |-> path, key |-> n,
                      at |-> [b |-> k, set |-> sid, i |-> i]]]
     ELSE IF o.count > 0 THEN [st EXCEPT !.m = m1]
     ELSE IF o.kind = "flags"
     THEN [st EXCEPT !.m = m1,
             !.calls = Append(@, [b |-> k, set |-> sid, i |-> i, key |-> n, s |-> t.s,
                                  ok |-> setEntry(f, sets, expand(t.s), [set |-> sid, i |-> i]) = "nil"])]
     ELSE IF o.kind = "help"
     THEN [st EXCEPT !.m = m1,
             !.calls = Append(@, [b |-> k, set |-> sid, i |-> i, key |-> n, s |-> t.s,
                                  ok |-> helpSet(sets, [set |-> sid, i |-> i]) = "nil"])]
     ELSE LET r == valueSet(o.kind, st.fields[o.fld], t.s)
          IN [st EXCEPT !.m = m1,
                !.fields = [@ EXCEPT ![o.fld] = r.v],
                !.calls = Append(@, [b |-> k, set |-> sid, i |-> i, key |-> n,
                                     s |-> t.s, ok |-> r.ok])]

\* the order in which VisitAll visits the options of a set
visitOrder(n, rev) == [j \in 1..n |-> IF rev THEN n + 1 - j ELSE j]

\* set.VisitAll with the visitor; ord is what is left to visit
RECURSIVE visitAll(_, _, _, _, _, _, _)
visitAll(st, f, sets, k, sid, ord, path) ==
  IF ord = <<>> THEN st
  ELSE visitAll(visitOption(st, f, sets, k, sid, ord[1], path),
                f, sets, k, sid, Tail(ord), path)

\* the loop over f.Sets as it would be if a named set read the whole tree
RECURSIVE applySetsFlat(_, _, _, _, _, _)
applySetsFlat(st, f, sets, k, rev, path) ==
  IF k > Len(f.Sets) \/ st.err # NoErr THEN st
  ELSE applySetsFlat(visitAll(st, f, sets, k, f.Sets[k].Set,
                              visitOrder(Len(sets[f.Sets[k].Set]), rev), path),
                     f, sets, k + 1, rev, path)

\* the map that the set bound under name reads in the working copy m
scopeOf(m, name) == IF name = <<>> THEN m ELSE m[name].m

\* the working copy after a set was visited as it would be if the keys its
\* flags used stayed in it
visitedLost(m, name, r) == [r EXCEPT !.m = m]

\* the working copy m after the set bound under name was visited, which left
\* r of the map it read
visited(m, name, r) ==
  [r EXCEPT !.m = IF name = <<>> THEN r.m ELSE Put(m, name, Map(r.m))]

\* the loop over f.Sets from its k-th element; st.m is the working copy
RECURSIVE applySets(_, _, _, _, _, _)
RECURSIVE applyNext(_, _, _, _, _, _)
applySets(st, f, sets, k, rev, path) ==
  IF k > Len(f.Sets) THEN st
  ELSE IF /\ f.Sets[k].Name # <<>>
          /\ (f.Sets[k].Name \notin DOMAIN st.m \/ st.m[f.Sets[k].Name].t # "map")
  THEN applySets(st, f, sets, k + 1, rev, path)
  ELSE applyNext(visited(st.m, f.Sets[k].Name,
                         visitAll([st EXCEPT !.m = scopeOf(st.m, f.Sets[k].Name)],
                                  f, sets, k, f.Sets[k].Set,
                                  visitOrder(Len(sets[f.Sets[k].Set]), rev), path)),
                 f, sets, k, rev, path)

\* the loop over f.Sets after its k-th element, which left st1
applyNext(st1, f, sets, k, rev, path) ==
  IF st1.err # NoErr THEN st1 ELSE applySets(st1, f, sets, k + 1, rev, path)

\* the names of the keys left as they would be if only the top level counted
unknownNamesTop(m) ==
  {<<"-", "-">> \o k : k \in {x \in DOMAIN m : m[x].t # "map"}}

\* the names of the keys left in the working copy m
unknownNames(m) ==
  {<<"-", "-">> \o k : k \in {x \in DOMAIN m : m[x].t # "map"}} \cup
  UNION {{<<"-", "-">> \o k \o <<".">> \o sk : sk \in DOMAIN m[k].m} :
           k \in {x \in DOMAIN m : m[x].t = "map"}}

\* the error for the names of the keys left
unknownErr(names, path) ==
  IF names = {} THEN NoErr
  ELSE [kind |-> "unknown", path |-> path, names |-> SortStrings(names)]

\* what Set returns when the loop over f.Sets ended in st
applied(w, st, path) ==
  [w |-> [w EXCEPT !.fields = st.fields],
   err |-> IF st.err # NoErr THEN st.err
           ELSE IF w.f.IgnoreUnknown THEN NoErr
           ELSE unknownErr(unknownNames(st.m), path),
   stage |-> "applied", calls |-> st.calls, tmerr |-> st.tmerr, left |-> st.m,
   dec |-> EmptyTree]

\* the apply phase as it would be if it deleted the matched keys from the
\* accumulated tree itself and not from a copy
applyPhaseInPlace(w, rev, path) ==
  LET r == applied(w, applySets([m |-> mergemap(EmptyTree, w.f.m), fields |-> w.fields,
                                 err |-> NoErr, calls |-> <<>>, tmerr |-> <<>>],
                                w.f, w.sets, 1, rev, path),
                   path)
  IN [r EXCEPT !.w.f.m = r.left]

\* the apply phase and the unknown-key detection of Set
applyPhase(w, rev, path) ==
  applied(w, applySets([m |-> mergemap(EmptyTree, w.f.m), fields |-> w.fields,
                        err |-> NoErr, calls |-> <<>>, tmerr |-> <<>>],
                       w.f, w.sets, 1, rev, path),
          path)

-----------------------------------------------------------------------------
(* The files and the decoders *)

\* the readable files, by path; every other path cannot be read
Files ==
  (<<"A">> :> << <<"n", "a", "m", "e", " ", "=", " ", "h", "e", "l", "l", "o">>,
               <<"i", "n", "t", " ", "=", " ", "4", "2">>,
               <<"b", "o", "o", "l", " ", "=", " ", "f", "a", "l", "s", "e">> >>) @@
  (<<"B">> :> << <<"n", "a", "m", "e", "=", "b", "o", "b">>,
               <<"c", "h", "i", "l", "d", ".", "n", "a", "m", "e", "=", "j", "i", "m">> >>) @@
  (<<"C">> :> << <<"n", "a", "m", "e", "=", "a", "m", "y">>,
               <<"n", "=", "j", "i", "m">>,
               <<"z", "z", "=", "1">>,
               <<"c", "h", "i", "l", "d", ".", "n", "a", "m", "e", "=", "k", "i", "m">>,
               <<"c", "h", "i", "l", "d", ".", "y", "=", "2">>,
               <<"b", ".", "c", "=", "3">> >>) @@
  (<<"X">> :> << <<"n", "a", "m", "e", "=", "j", "i", "m">>,
               <<"i", "n", "t", ".", "x", "=", "1">>,
               <<"b", "o", "o", "l", "=", "t", "r", "u", "e">>,
               <<"c", "h", "i", "l", "d", ".", "n", "a", "m", "e", "=", "k", "i", "m">> >>) @@
  (<<"D">> :> << <<"n", "a", "m", "e", "=", "d", "a", "n">>,
               <<"l", "o", "c", "=", "h", "e", "r", "e">> >>) @@
  (<<"F">> :> << <<"f", "l", "a", "g", "s", "=", "B">>,
               <<"h", "e", "l", "p", "=", "B">>,
               <<"n", "a", "m", "e", "=", "f", "a", "y">> >>) @@
  (<<"E">> :> << <<" ">>, <<>> >>) @@
  (<<"T">> :> << <<"b", "o", "b">> >>) @@
  (<<"L">> :> << <<"l", "i", "s", "t", "=", "a">>,
               <<"n", "a", "m", "e", "=", "l", "e", "e">> >>) @@
  (<<"N">> :> << <<"n", "a", "m", "e", "=", "n", "e", "d">> >>)

\* bytes.TrimSpace(data) for data that is not blank
RECURSIVE dropBlankHead(_)
dropBlankHead(data) ==
  IF TrimSpace(data[1]) = <<>> THEN dropBlankHead(Tail(data))
  ELSE <<TrimLeft(data[1])>> \o Tail(data)

RECURSIVE dropBlankTail(_)
dropBlankTail(data) ==
  IF TrimSpace(data[Len(data)]) = <<>> THEN dropBlankTail(SubSeq(data, 1, Len(data) - 1))
  ELSE SubSeq(data, 1, Len(data) - 1) \o <<TrimRight(data[Len(data)])>>

TrimData(data) == dropBlankTail(dropBlankHead(data))

\* the map returned by the decoder that yields a value of an unsupported type
StructTree ==
  (<<"c", "h", "i", "l", "d">> :> Map(<<"n", "a", "m", "e">> :> Str(<<"k", "i", "m">>))) @@
  (<<"n", "a", "m", "e">> :> Str(<<"j", "i", "m">>)) @@
  (<<"i", "n", "t">> :> [t |-> "struct"]) @@
  (<<"b", "o", "o", "l">> :> [t |-> "bool", b |-> TRUE])

\* the map returned by the decoder whose text value fails to marshal
TMErrTree ==
  (<<"n", "a", "m", "e">> :> [t |-> "tm", V |-> <<"e", "r", "r", "o", "r">>]) @@
  (<<"i", "n", "t">> :> [t |-> "num", n |-> 7])

\* the map returned by testDecoder
TestTree ==
  (<<"t", "m">> :> [t |-> "tm", V |-> <<"t", "m", "v", "a", "l", "u", "e">>]) @@
  (<<"s">> :> [t |-> "st", V |-> <<"s", "v", "a", "l", "u", "e">>]) @@
  (<<"f">> :> [t |-> "num", n |-> 42]) @@
  (<<"b">> :> [t |-> "bool", b |-> TRUE]) @@
  (<<"n">> :> [t |-> "bool", b |-> FALSE])

\* the FlagsDecoder functions a Flags can be given; "fail" returns an error
\* for whatever data
DecoderIds == {"simple", "struct", "tmerr", "fail"}

\* what SimpleDecoder returns for the trimmed data of each file
Decoded == [p \in DOMAIN Files |-> SimpleDecoder(TrimData(Files[p]))]

\* f.Decoder(data) for the trimmed data of the file path
Decode(dec, path) ==
  CASE dec = "simple" -> Decoded[path]
    [] dec = "struct" -> [ok |-> TRUE, m |-> StructTree]
    [] dec = "tmerr" -> [ok |-> TRUE, m |-> TMErrTree]
    [] dec = "fail" -> [ok |-> FALSE, err |-> "tmErr"]
    [] dec = "test" -> [ok |-> TRUE, m |-> TestTree]

-----------------------------------------------------------------------------
(* Flags.Set and Flags.Rescan on a world w = [f, fields, sets] *)

\* What a call of Set returns: the world w it leaves, its error and, as
\* history, the stage at which it returned, the Value.Set calls it made, the
\* keys whose MarshalText failed, the working copy it left and the tree dec
\* it decoded.  SetResult is a return before the apply phase.
SetResult(w, err, stage) ==
  [w |-> w, err |-> err, stage |-> stage, calls |-> <<>>, tmerr |-> <<>>,
   left |-> EmptyTree, dec |-> EmptyTree]

\* Set as it would be if it went on to the apply phase after an error of the
\* decoder
setDecodedOn(w, path, dec, rev) ==
  IF ~dec.ok THEN applyPhase([w EXCEPT !.f.path = path], rev, path)
  ELSE [applyPhase([w EXCEPT !.f.path = path, !.f.m = mergemap(w.f.m, dec.m)], rev, path)
          EXCEPT !.dec = dec.m]

\* Set as it would be if the apply phase applied the tree that was decoded
\* in the call and not the accumulated tree
setDecodedAlone(w, path, dec, rev) ==
  IF ~dec.ok
  THEN SetResult([w EXCEPT !.f.path = path],
                 [kind |-> "decode", path |-> path, err |-> dec.err], "decode")
  ELSE LET r == applyPhase([w EXCEPT !.f.path = path, !.f.m = dec.m], rev, path)
       IN [r EXCEPT !.dec = dec.m, !.w.f.m = mergemap(w.f.m, dec.m)]

\* Set after the decoder returned dec for the file path
setDecoded(w, path, dec, rev) ==
  IF ~dec.ok
  THEN SetResult([w EXCEPT !.f.path = path],
                 [kind |-> "decode", path |-> path, err |-> dec.err], "decode")
  ELSE [applyPhase([w EXCEPT !.f.path = path, !.f.m = mergemap(w.f.m, dec.m)], rev, path)
          EXCEPT !.dec = dec.m]

\* Set as it would be if it recorded the path before it read the file
setReadEager(w, path, optional, rev) ==
  IF path \notin DOMAIN Files
  THEN IF optional THEN SetResult([w EXCEPT !.f.path = path], NoErr, "nofile")
       ELSE SetResult([w EXCEPT !.f.path = path], [kind |-> "read", path |-> path], "nofile")
  ELSE IF IsBlank(Files[path]) THEN SetResult([w EXCEPT !.f.path = path], NoErr, "blank")
  ELSE setDecoded(w, path, Decode(w.f.Decoder, path), rev)

\* Set as it would be if it went on to the apply phase for a file that is
\* empty after trimming
setReadBlankOn(w, path, optional, rev) ==
  IF path \notin DOMAIN Files
  THEN IF optional THEN SetResult(w, NoErr, "nofile")
       ELSE SetResult(w, [kind |-> "read", path |-> path], "nofile")
  ELSE IF IsBlank(Files[path])
  THEN setDecoded(w, path, [ok |-> TRUE, m |-> EmptyTree], rev)
  ELSE setDecoded(w, path, Decode(w.f.Decoder, path), rev)

\* Set reads the file path; optional: the value began with "?"
setRead(w, path, optional, rev) ==
  IF path \notin DOMAIN Files
  THEN IF optional THEN SetResult(w, NoErr, "nofile")
       ELSE SetResult(w, [kind |-> "read", path |-> path], "nofile")
  ELSE IF IsBlank(Files[path]) THEN SetResult([w EXCEPT !.f.path = path], NoErr, "blank")
  ELSE setDecoded(w, path, Decode(w.f.Decoder, path), rev)

\* Set with the expanded value, its first checks having said entry
setExpanded(w, value, entry, rev) ==
  IF entry = "nil"
  THEN SetResult(w, NoErr, IF value = <<>> \/ value = <<"?">> THEN "empty" ELSE "unseen")
  ELSE IF entry = "notreg" THEN SetResult(w, [kind |-> "notreg"], "notreg")
  ELSE IF value = rescanFlags THEN applyPhase(w, rev, w.f.path)
  ELSE IF value[1] = "?" THEN setRead(w, Tail(value), TRUE, rev)
  ELSE setRead(w, value, FALSE, rev)

\* Set with the expanded value
setValue(w, value, opt, rev) ==
  setExpanded(w, value, setEntry(w.f, w.sets, value, opt), rev)

\* (f *Flags) Set(value0, opt)
FlagsSet(w, value0, opt, rev) == setValue(w, expand(value0), opt, rev)

\* Rescan as it would be if it bound the set to the top level of the tree
FlagsRescanRoot(w, name, sid, rev) ==
  LET osets == w.f.Sets
      r == FlagsSet([w EXCEPT !.f.Sets = <<[Name |-> <<>>, Set |-> sid]>>],
                    rescanFlags, NilOpt, rev)
  IN [r EXCEPT !.w.f.Sets = osets]

\* Rescan as it would be if it left its binding of the set in Sets
FlagsRescanKeep(w, name, sid, rev) ==
  FlagsSet([w EXCEPT !.f.Sets = <<[Name |-> name, Set |-> sid]>>], rescanFlags, NilOpt, rev)

\* (f *Flags) Rescan(name, set)
FlagsRescan(w, name, sid, rev) ==
  LET osets == w.f.Sets
      r == FlagsSet([w EXCEPT !.f.Sets = <<[Name |-> name, Set |-> sid]>>],
                    rescanFlags, NilOpt, rev)
  IN [r EXCEPT !.w.f.Sets = osets]

-----------------------------------------------------------------------------
(* Option Registrar *)

UpperCase ==
  << "A", "B", "C", "D", "E", "F", "G", "H", "I", "J", "K", "L", "M",
     "N", "O", "P", "Q", "R", "S", "T", "U", "V", "W", "X", "Y", "Z" >>

LowerCase ==
  << "a", "b", "c", "d", "e", "f", "g", "h", "i", "j", "k", "l", "m",
     "n", "o", "p", "q", "r", "s", "t", "u", "v", "w", "x", "y", "z" >>

\* strings.ToLower
ToLower(s) ==
  [j \in 1..Len(s) |->
     IF \E u \in 1..26 : UpperCase[u] = s[j]
     THEN LowerCase[CHOOSE u \in 1..26 : UpperCase[u] = s[j]] ELSE s[j]]

\* The option structures passed to the registrar.  ptr: the value is a pointer
\* to a struct.  A field is [name, tag, kind, fld, enc]: the Go name, the
\* getopt tag, the kind of the field's type ("unsupported": a type that no
\* option can be made of), the field's storage and the encoding tag.
Structs ==
  [ opts |->
      [ptr |-> TRUE,
       fields |-> <<
         [name |-> <<"N", "a", "m", "e">>, tag |-> <<"-", "-", "n", "a", "m", "e", " ", "-", "n">>, kind |-> "string", fld |-> "Name", enc |-> <<>>],
         [name |-> <<"I", "n", "t">>, tag |-> <<"-", "-", "i", "n", "t">>, kind |-> "int", fld |-> "Int", enc |-> <<>>],
         [name |-> <<"B", "o", "o", "l">>, tag |-> <<"-", "-", "b", "o", "o", "l">>, kind |-> "bool", fld |-> "Bool", enc |-> <<>>],
         [name |-> <<"L", "o", "c">>, tag |-> <<"-", "-", "l", "o", "c", "=", "F", "I", "L", "E", ":", "L", "I", "N", "E", " ", "a", " ", "l", "o", "c", "a", "t", "i", "o", "n">>, kind |-> "loc", fld |-> "Loc", enc |-> <<>>],
         [name |-> <<"F", "l", "a", "g", "s">>, tag |-> <<"-", "-", "f", "l", "a", "g", "s">>, kind |-> "flags", fld |-> "Flags", enc |-> <<>>],
         [name |-> <<"H", "e", "l", "p">>, tag |-> <<"-", "-", "h", "e", "l", "p">>, kind |-> "help", fld |-> "Help", enc |-> <<>>] >>],
    sub |->
      [ptr |-> TRUE,
       fields |-> <<
         [name |-> <<"N", "a", "m", "e">>, tag |-> <<>>, kind |-> "string", fld |-> "cName", enc |-> <<>>] >>],
    badtag |->
      [ptr |-> TRUE,
       fields |-> <<
         [name |-> <<"I", "n", "v", "a", "l", "i", "d">>, tag |-> <<"i", "n", "v", "a", "l", "i", "d", " ", "t", "a", "g">>, kind |-> "string", fld |-> "cName", enc |-> <<>>] >>],
    badtype |->
      [ptr |-> TRUE,
       fields |-> <<
         [name |-> <<"C", "h">>, tag |-> <<"-", "-", "c", "h">>, kind |-> "unsupported", fld |-> "cName", enc |-> <<>>] >>],
    badenc |->
      [ptr |-> TRUE,
       fields |-> <<
         [name |-> <<"F">>, tag |-> <<>>, kind |-> "flags", fld |-> "Flags", enc |-> <<"b", "o", "b">>] >>],
    topts |->
      [ptr |-> TRUE,
       fields |-> <<
         [name |-> <<"F", "l", "a", "g", "s">>, tag |-> <<"-", "-", "f", "l", "a", "g", "s">>, kind |-> "flags", fld |-> "Flags", enc |-> <<>>],
         [name |-> <<"T", "M">>, tag |-> <<"-", "-", "t", "m">>, kind |-> "string", fld |-> "TM", enc |-> <<>>],
         [name |-> <<"S">>, tag |-> <<"-", "s">>, kind |-> "string", fld |-> "S", enc |-> <<>>],
         [name |-> <<"F">>, tag |-> <<"-", "f">>, kind |-> "float", fld |-> "F", enc |-> <<>>],
         [name |-> <<"B">>, tag |-> <<"-", "b">>, kind |-> "bool", fld |-> "B", enc |-> <<>>],
         [name |-> <<"N">>, tag |-> <<"-", "n">>, kind |-> "bool", fld |-> "N", enc |-> <<>>] >>],
    lopts |->
      [ptr |-> TRUE,
       fields |-> <<
         [name |-> <<"N", "a", "m", "e">>, tag |-> <<"-", "-", "n", "a", "m", "e">>, kind |-> "string", fld |-> "Name", enc |-> <<>>],
         [name |-> <<"L", "i", "s", "t">>, tag |-> <<"-", "-", "l", "i", "s", "t">>, kind |-> "list", fld |-> "List", enc |-> <<>>],
         [name |-> <<"F", "l", "a", "g", "s">>, tag |-> <<"-", "-", "f", "l", "a", "g", "s">>, kind |-> "flags", fld |-> "Flags", enc |-> <<>>] >>],
    notptr |-> [ptr |-> FALSE, fields |-> <<>>] ]

\* the structures whose Flags field is a Flags of their own, not the Flags of
\* the structure opts
OwnFlags == {"badenc"}

\* the optTag derived from the field name when the tag is empty
derivedTag(fieldName) ==
  LET n == ToLower(fieldName)
  IN IF Len(n) = 1
     THEN [res |-> "tag", long |-> <<>>, short |-> n[1], param |-> <<>>, help |-> <<>>]
     ELSE [res |-> "tag", long |-> n, short |-> "", param |-> <<>>, help |-> <<>>]

\* set.FlagLong(opt, o.long, o.short, hv...): the new option of the set
newOption(o, field) ==
  [long |-> o.long, short |-> o.short, kind |-> field.kind, fld |-> field.fld,
   count |-> 0, cmd |-> <<>>]

\* register as it would be if an encoding that is not registered meant the
\* simple decoder
bindFlagsLax(r, sets1, f1, tag, decs) ==
  [r EXCEPT !.w.sets = sets1,
            !.w.f = [f1 EXCEPT !.Decoder = IF tag \in DOMAIN decs THEN decs[tag]
                                           ELSE "simple"]]

\* register: the Flags field gets the decoder of its encoding tag; f1 is the
\* Flags with the set and the option, sets1 the sets with the new option
bindFlags(r, sets1, f1, tag, decs) ==
  IF tag \notin DOMAIN decs
  THEN [w |-> [r.w EXCEPT !.sets = sets1, !.f = f1],
        out |-> "error", err |-> "unknown flags decoding type"]
  ELSE [r EXCEPT !.w.sets = sets1, !.w.f = [f1 EXCEPT !.Decoder = decs[tag]]]

\* register: the field has become the last option of the set sid in sets1
addedOption(r, field, sets1, name, sid, decs) ==
  IF field.kind = "flags"
  THEN bindFlags(r, sets1,
                 [r.w.f EXCEPT !.Sets = Append(@, [Name |-> name, Set |-> sid]),
                               !.opt = [set |-> sid, i |-> Len(sets1[sid])]],
                 IF field.enc = <<>> THEN <<"s", "i", "m", "p", "l", "e">> ELSE field.enc,
                 decs)
  ELSE [r EXCEPT !.w.sets = sets1]

\* register: the body of the loop for the field, whose tag parseTag made pt;
\* r = [w, out, err] with out = "ok" while register runs, "error" for a
\* returned error, "panic" for a panic
registerField(r, field, pt, name, sid, decs) ==
  IF field.tag = <<"-">> THEN r
  ELSE IF pt.res = "err" THEN [r EXCEPT !.out = "panic", !.err = pt.msg]
  ELSE IF field.kind = "unsupported"
  THEN [r EXCEPT !.out = "panic", !.err = "invalid option type"]
  ELSE addedOption(r, field,
                   [r.w.sets EXCEPT ![sid] =
                      Append(@, newOption(IF pt.res = "nil" THEN derivedTag(field.name)
                                          ELSE pt, field))],
                   name, sid, decs)

\* the loop of register over the fields left
RECURSIVE registerLoop(_, _, _, _, _)
registerLoop(r, fieldsLeft, name, sid, decs) ==
  IF fieldsLeft = <<>> \/ r.out # "ok" THEN r
  ELSE registerLoop(registerField(r, fieldsLeft[1], parseTag(fieldsLeft[1].tag),
                                  name, sid, decs),
                    Tail(fieldsLeft), name, sid, decs)

\* register(name, i, set)
register(w, name, i, sid, decs) ==
  IF ~Structs[i].ptr
  THEN [w |-> w, out |-> "error", err |-> "not a pointer to a struct"]
  ELSE registerLoop([w |-> w, out |-> "ok", err |-> ""], Structs[i].fields, name, sid, decs)

-----------------------------------------------------------------------------
(* The command-line parser: set.Getopt(args, nil) *)

\* the index of the option of the set with the long name, 0 if there is none
lookupLong(options, long) ==
  IF \E j \in 1..Len(options) : options[j].long = long
  THEN CHOOSE j \in 1..Len(options) : options[j].long = long ELSE 0

\* the option i of the set sid is seen once more, with the text val
seenOnce(w, sid, i, val) ==
  [w EXCEPT !.sets[sid][i].count = @ + 1, !.sets[sid][i].cmd = val]

\* the parser after the Flags option's Set returned fs
flagsArg(fs) ==
  [w |-> fs.w, fs |-> fs,
   err |-> IF fs.err = NoErr THEN NoErr ELSE [kind |-> "getopt", err |-> fs.err]]

\* the parser after the Set of the value of the option o returned vs
valueArg(r, w1, o, vs) ==
  [r EXCEPT !.w = [w1 EXCEPT !.fields[o.fld] = vs.v],
            !.err = IF vs.ok THEN NoErr ELSE [kind |-> "getopt", err |-> [kind |-> vs.err]]]

\* the parser handles the argument a, which names the option i of the set;
\* r = [w, err, fs]: fs is the result of the last Flags.Set the parser called
getoptArg(r, sid, a, i, rev) ==
  IF i = 0 THEN [r EXCEPT !.err = [kind |-> "getopt", err |-> [kind |-> "unknown option"]]]
  ELSE IF r.w.sets[sid][i].kind = "flags"
  THEN flagsArg(FlagsSet(seenOnce(r.w, sid, i, a.val), a.val, [set |-> sid, i |-> i], rev))
  ELSE valueArg(r, seenOnce(r.w, sid, i, a.val), r.w.sets[sid][i],
                valueSet(r.w.sets[sid][i].kind, r.w.fields[r.w.sets[sid][i].fld], a.val))

\* the loop over the arguments
RECURSIVE getoptLoop(_, _, _, _)
getoptLoop(r, sid, args, rev) ==
  IF args = <<>> \/ r.err # NoErr THEN r
  ELSE getoptLoop(getoptArg(r, sid, args[1], lookupLong(r.w.sets[sid], args[1].name), rev),
                  sid, Tail(args), rev)

Getopt(w, sid, args, rev) ==
  getoptLoop([w |-> w, err |-> NoErr, fs |-> SetResult(w, NoErr, "none")], sid, args, rev)

-----------------------------------------------------------------------------
(* The state machine *)

VARIABLES
  f,         \* the Flags value of the option structure opts
  fields,    \* the other fields of the option structures
  sets,      \* the options of each getopt set
  decoders,  \* the decoder registry
  decoderMu, \* the mutex of the registry: the goroutine that holds it, or 0
  goroutines,\* the goroutines that use the registry at once: where each is
  ret,       \* the last operation, its inputs and what it returned
  nops       \* the number of operations so far

vars == <<f, fields, sets, decoders, decoderMu, goroutines, ret, nops>>

\* the registry, its mutex and the goroutines that use it
registry == <<decoders, decoderMu, goroutines>>

World == [f |-> f, fields |-> fields, sets |-> sets]

\* the values passed to Flags.Set
SetValues ==
  { <<>>, <<"A">>, <<"B">>, <<"C">>, <<"D">>, <<"X">>, <<"M">>, <<"?", "M">>,
    <<"$", "{", "P", "}">>, <<"?">>, <<"$", "{", "V", "3", "}">>, <<"F">>, <<"E">> }

\* the argument lists passed to Getopt: [name, val] stands for --name=val
Arg(name, val) == [name |-> name, val |-> val]

ArgLists ==
  { << Arg(<<"n", "a", "m", "e">>, <<"b", "o", "b">>), Arg(<<"b", "o", "o", "l">>, <<>>), Arg(<<"f", "l", "a", "g", "s">>, <<"A">>) >>,
    << Arg(<<"f", "l", "a", "g", "s">>, <<"A">>), Arg(<<"n", "a", "m", "e">>, <<"b", "o", "b">>), Arg(<<"b", "o", "o", "l">>, <<>>) >>,
    << Arg(<<"n", "a", "m", "e">>, <<"b", "o", "b">>), Arg(<<"b", "o", "o", "l">>, <<>>) >>,
    << Arg(<<"f", "l", "a", "g", "s">>, <<"?">>) >> }

\* the names under which a set is bound to the Flags
SetNames == { <<>>, <<"c", "h", "i", "l", "d">> }

\* the zero value of Flags
ZeroFlags ==
  [Sets |-> <<>>, IgnoreUnknown |-> FALSE, Decoder |-> "nil",
   path |-> <<>>, opt |-> NilOpt, m |-> EmptyTree]

\* flags: the Flags of the structure registered, when it has one of its own;
\* rev: the order in which the options were visited, when they were;
\* arg, res: the argument and the result of a function called alone
Ret(op, out, err) ==
  [op |-> op, out |-> out, err |-> err, stage |-> "none", calls |-> <<>>,
   tmerr |-> <<>>, left |-> EmptyTree, dec |-> EmptyTree, value |-> <<>>, args |-> <<>>,
   struct |-> "", name |-> <<>>,
   set |-> "", rev |-> FALSE, flags |-> ZeroFlags, arg |-> <<>>, res |-> <<>>]

\* the values the program gives the fields of its option structures
Defaults ==
  [Name |-> <<"f", "r", "e", "d">>, Int |-> 0, Bool |-> FALSE,
   Loc |-> [File |-> <<>>, Line |-> 0], Help |-> FALSE,
   cName |-> <<"j", "o", "h", "n">>]

Init ==
  /\ f = ZeroFlags
  /\ fields = Defaults
  /\ sets = [s \in SetIds |-> <<>>]
  /\ decoders = (<<"s", "i", "m", "p", "l", "e">> :> "simple")
  /\ decoderMu = 0
  /\ goroutines = <<>>
  /\ ret = Ret("init", "ok", NoErr)
  /\ nops = 0

\* the program goes on: no call has panicked, and the number of calls is
\* within the bound
Running == ret.out # "panic" /\ nops < MaxOps

\* the outcome of a registration; eager: Register and RegisterNew panic on
\* an error that register returns
Registered(op, r, eager, name, i, sid) ==
  /\ f' = IF i \in OwnFlags THEN f ELSE r.w.f
  /\ sets' = r.w.sets
  /\ ret' = [Ret(op, IF eager /\ r.out = "error" THEN "panic" ELSE r.out,
                 [kind |-> r.err])
               EXCEPT !.struct = i, !.name = name, !.set = sid,
                      !.flags = IF i \in OwnFlags THEN r.w.f ELSE ZeroFlags]
  /\ nops' = nops + 1
  /\ UNCHANGED <<fields, registry>>

\* the world that register works on for the structure i
WorldOf(i) == IF i \in OwnFlags THEN [World EXCEPT !.f = ZeroFlags] ELSE World

\* Register(i): the fields of i become options of the standard CommandLine
DoRegister(i) ==
  /\ Running
  /\ sets["cl"] = <<>>
  /\ Registered("Register", register(World, <<>>, i, "cl", decoders), TRUE, <<>>, i, "cl")

\* RegisterSet(name, i, set)
DoRegisterSet(name, i, sid) ==
  /\ Running
  /\ sets[sid] = <<>>
  /\ Registered("RegisterSet", register(WorldOf(i), name, i, sid, decoders), FALSE, name, i, sid)

\* Validate(i): register into a new set that is thrown away
DoValidate(i) ==
  /\ Running
  /\ sets["tmp"] = <<>>
  /\ Registered("Validate", register(WorldOf(i), <<>>, i, "tmp", decoders), FALSE, <<>>, i, "tmp")

\* f.Sets = append(f.Sets, Set{name, set}) by the caller
DoAppendSet(name, sid) ==
  /\ Running
  /\ Len(f.Sets) < MaxSets
  /\ f' = [f EXCEPT !.Sets = Append(@, [Name |-> name, Set |-> sid])]
  /\ ret' = [Ret("AppendSet", "ok", NoErr) EXCEPT !.name = name, !.set = sid]
  /\ nops' = nops + 1
  /\ UNCHANGED <<fields, sets, registry>>

\* f.IgnoreUnknown = true by the caller
DoIgnoreUnknown ==
  /\ Running
  /\ ~f.IgnoreUnknown
  /\ f' = [f EXCEPT !.IgnoreUnknown = TRUE]
  /\ ret' = Ret("IgnoreUnknown", "ok", NoErr)
  /\ nops' = nops + 1
  /\ UNCHANGED <<fields, sets, registry>>

\* f.SetEncoding(decoder)
DoSetEncoding(dec) ==
  /\ Running
  /\ dec # f.Decoder
  /\ f' = [f EXCEPT !.Decoder = dec]
  /\ ret' = Ret("SetEncoding", "ok", NoErr)
  /\ nops' = nops + 1
  /\ UNCHANGED <<fields, sets, registry>>

\* what a call of Set or Rescan leaves behind
Returned(op, r, value, name, sid, rev) ==
  /\ f' = r.w.f
  /\ fields' = r.w.fields
  /\ ret' = [Ret(op, IF r.err = NoErr THEN "ok" ELSE "error", r.err)
               EXCEPT !.stage = r.stage, !.calls = r.calls, !.tmerr = r.tmerr,
                      !.left = r.left, !.dec = r.dec,
                      !.value = value, !.name = name, !.set = sid,
                      !.rev = (rev /\ r.stage = "applied")]
  /\ nops' = nops + 1
  /\ UNCHANGED <<sets, registry>>

\* f.Set(value, nil): Set called directly
DoSet(value, rev) ==
  /\ Running
  /\ Returned("Set", FlagsSet(World, value, NilOpt, rev), value, <<>>, "", rev)

\* f.Rescan(name, set)
DoRescan(name, sid, rev) ==
  /\ Running
  /\ Returned("Rescan", FlagsRescan(World, name, sid, rev), <<>>, name, sid, rev)

\* what a call of Getopt leaves behind
Parsed(r, args, rev) ==
  /\ f' = r.w.f
  /\ fields' = r.w.fields
  /\ sets' = r.w.sets
  /\ ret' = [Ret("Getopt", IF r.err = NoErr THEN "ok" ELSE "error", r.err)
               EXCEPT !.stage = r.fs.stage, !.calls = r.fs.calls,
                      !.tmerr = r.fs.tmerr,
                      !.left = r.fs.left, !.dec = r.fs.dec, !.args = args, !.set = "cl",
                      !.rev = (rev /\ r.fs.stage = "applied")]
  /\ nops' = nops + 1
  /\ UNCHANGED registry

\* set.Getopt(args, nil) on the standard CommandLine
DoGetopt(args, rev) ==
  /\ Running
  /\ Parsed(Getopt(World, "cl", args, rev), args, rev)

Next ==
  \/ \E i \in {"opts", "notptr"} : DoRegister(i)
  \/ \E i \in {"sub", "badtag", "badtype", "badenc", "notptr"} : DoRegisterSet(<<"c", "h", "i", "l", "d">>, i, "s2")
  \/ \E i \in {"opts", "badtag", "badtype", "badenc", "notptr"} : DoValidate(i)
  \/ \E name \in SetNames : DoAppendSet(name, "s2")
  \/ DoIgnoreUnknown
  \/ \E dec \in DecoderIds : DoSetEncoding(dec)
  \/ \E value \in SetValues, rev \in BOOLEAN : DoSet(value, rev)
  \/ \E name \in SetNames, sid \in {"cl", "s2"}, rev \in BOOLEAN : DoRescan(name, sid, rev)
  \/ \E args \in ArgLists, rev \in BOOLEAN : DoGetopt(args, rev)

Spec == Init /\ [][Next]_vars

-----------------------------------------------------------------------------
(* The functions called alone: the state is the call and, after it, what it
   returned *)

\* the function op is about to be called with arg
Call(op, arg) == [Ret(op, "call", NoErr) EXCEPT !.arg = arg]

\* the program before the call of op with one of the args
InitCall(op, args) ==
  /\ f = ZeroFlags
  /\ fields = Defaults
  /\ sets = [s \in SetIds |-> <<>>]
  /\ decoders = (<<"s", "i", "m", "p", "l", "e">> :> "simple")
  /\ decoderMu = 0
  /\ goroutines = <<>>
  /\ ret \in {Call(op, arg) : arg \in args}
  /\ nops = 0

\* the sequences of at most n elements of S
RECURSIVE SeqsUpTo(_, _)
SeqsUpTo(S, n) ==
  IF n = 0 THEN {<<>>}
  ELSE SeqsUpTo(S, n - 1) \cup
       {Append(q, x) : q \in {y \in SeqsUpTo(S, n - 1) : Len(y) = n - 1}, x \in S}

\* the lines given to SimpleDecoder: values of sub, of sub.key and of
\* sub.key.x, a value of another key, a quoted value, a comment, a blank
\* line, and a line without a value, without a name and with a space in the
\* name
DataLines ==
  { <<"s", "u", "b", " ", "=", " ", "o">>,
    <<"s", "u", "b", ".", "k", "e", "y", " ", "=", " ", "v">>,
    <<"s", "u", "b", ".", "k", "e", "y", ".", "x", "=", "1">>,
    <<"k", "=", "\"", "a", " ", "#", "\"">>,
    <<" ", "#", " ", "c">>,
    <<>>,
    <<"n">>,
    <<"=", "v">>,
    <<"a", " ", "b", "=", "c">> }

InitSimpleDecoder == InitCall("SimpleDecoder", SeqsUpTo(DataLines, MaxLines))

\* SimpleDecoder(data)
DoSimpleDecoder ==
  /\ ret.op = "SimpleDecoder" /\ ret.out = "call"
  /\ ret' = [ret EXCEPT !.out = IF SimpleDecoder(ret.arg).ok THEN "ok" ELSE "error",
                         !.res = SimpleDecoder(ret.arg)]
  /\ UNCHANGED <<f, fields, sets, registry, nops>>

SpecSimpleDecoder == InitSimpleDecoder /\ [][DoSimpleDecoder]_vars

\* strings.Join(parts, "")
RECURSIVE Join(_)
Join(parts) == IF parts = <<>> THEN <<>> ELSE parts[1] \o Join(Tail(parts))

\* the pieces of the strings given to expand: the opening of a reference, a
\* dollar, the closing brace, the mark of a default, the names of three
\* variables (P is A, Q is ${P}, V3 is empty) and the text a, which is also
\* the name of a variable that is not set
Pieces ==
  { <<"$", "{">>, <<"$">>, <<"}">>, <<":", "-">>, <<"P">>, <<"Q">>, <<"V", "3">>, <<"a">> }

\* strings of the table of the tests, and two with a reference in a default
ExpandCases ==
  { <<"x", "y", "z", "$", "{", "$", "{", "a", "b", "c">>,
    <<"$", "{", "V", "1", ":", "-", "m", "i", "s", "s", "i", "n", "g", "}">>,
    <<"$", "{", "V", "3", ":", "-", "m", "i", "s", "s", "i", "n", "g", "}">>,
    <<"$", "{", "V", "1", "}", "$", "{", "P", "}", "$", "{", "V", "3", "}">>,
    <<"$", "{", "V", "3", ":", "-", "$", "{", "P", "}", "}">>,
    <<"$", "{", "a", ":", "-", "$", "{", "$", "{", "P", "}", "a">> }

InitExpand ==
  InitCall("expand", {Join(q) : q \in SeqsUpTo(Pieces, MaxPieces)} \cup ExpandCases)

\* expand(s)
DoExpand ==
  /\ ret.op = "expand" /\ ret.out = "call"
  /\ ret' = [ret EXCEPT !.out = "ok", !.res = expand(ret.arg)]
  /\ UNCHANGED <<f, fields, sets, registry, nops>>

SpecExpand == InitExpand /\ [][DoExpand]_vars

\* the tokens of the tags of TestParseTag, and the empty token for a second
\* space between two tokens
TagTokens ==
  { <<>>, <<"-">>, <<"-", "-">>, <<"-", "a">>, <<"-", "a", "b">>,
    <<"-", "-", "a">>, <<"-", "-", "-", "a">>,
    <<"-", "a", "=", "P">>, <<"-", "-", "a", "=", "P">>,
    <<"-", "=", "P">>, <<"-", "-", "=", "P">>, <<"-", "=">>,
    <<"-", "-", "=">>, <<"-", "-", "a", "=">>, <<"h">> }

\* strings.Join(q, " ")
RECURSIVE JoinSpace(_)
JoinSpace(q) ==
  IF q = <<>> THEN <<>>
  ELSE IF Len(q) = 1 THEN q[1]
  ELSE q[1] \o <<" ">> \o JoinSpace(Tail(q))

InitParseTag ==
  InitCall("parseTag", {JoinSpace(q) : q \in SeqsUpTo(TagTokens, MaxTokens)})

\* parseTag(tag)
DoParseTag ==
  /\ ret.op = "parseTag" /\ ret.out = "call"
  /\ ret' = [ret EXCEPT !.out = "ok", !.res = parseTag(ret.arg)]
  /\ UNCHANGED <<f, fields, sets, registry, nops>>

SpecParseTag == InitParseTag /\ [][DoParseTag]_vars

\* the values given to the type switch: a TextMarshaler that is a Stringer
\* too, a Stringer, a string, each with one of the texts, a number, a bool, a
\* value of another type and a map
ValueTexts ==
  { <<>>, <<"t", "m", "v", "a", "l", "u", "e">>, <<"s", "v", "a", "l", "u", "e">>,
    <<"e", "r", "r", "o", "r">>, <<"4", "2">>, <<"t", "r", "u", "e">> }

TreeValues ==
  {[t |-> "tm", V |-> x] : x \in ValueTexts} \cup
  {[t |-> "st", V |-> x] : x \in ValueTexts} \cup
  {Str(x) : x \in ValueTexts} \cup
  {[t |-> "num", n |-> n] : n \in 0..MaxNum} \cup
  {[t |-> "bool", b |-> b] : b \in BOOLEAN} \cup
  {[t |-> "struct"], Map(TestTree)}

\* the fields of the option structure of TestDecoder
TestDefaults == [TM |-> <<>>, S |-> <<>>, F |-> 0, B |-> FALSE, N |-> FALSE]

\* the type switch is about to be called with one of the values, or
\* TestDecoder starts
InitDecoder ==
  /\ f = ZeroFlags
  /\ fields = TestDefaults
  /\ sets = [s \in SetIds |-> <<>>]
  /\ decoders = (<<"s", "i", "m", "p", "l", "e">> :> "simple")
  /\ decoderMu = 0
  /\ goroutines = <<>>
  /\ ret \in {Call("valueText", v) : v \in TreeValues} \cup {Ret("init", "ok", NoErr)}
  /\ nops = 0

\* the type switch of the visitor on the value ret.arg
DoValueText ==
  /\ ret.op = "valueText" /\ ret.out = "call"
  /\ ret' = [ret EXCEPT !.out = "ok", !.res = valueText(ret.arg)]
  /\ UNCHANGED <<f, fields, sets, registry, nops>>

\* the steps of TestDecoder, in any order: the options are registered, the
\* Flags is given testDecoder, the command line names the file, the set is
\* rescanned
NextDecoder ==
  \/ DoValueText
  \/ ret.op # "valueText" /\ DoRegister("topts")
  \/ ret.op # "valueText" /\ DoSetEncoding("test")
  \/ ret.op # "valueText" /\ \E rev \in BOOLEAN :
        DoGetopt(<< Arg(<<"f", "l", "a", "g", "s">>, <<"T">>) >>, rev)
  \/ ret.op # "valueText" /\ \E rev \in BOOLEAN : DoRescan(<<>>, "cl", rev)

SpecDecoder == InitDecoder /\ [][NextDecoder]_vars

-----------------------------------------------------------------------------
(* The decoder registry used by several goroutines at once.  A goroutine
   either calls RegisterEncoding(name, dec) or is in register, where it looks
   up the tag of a Flags field.  The access to the map takes two steps, so
   that two goroutines can be in the map at once: a read or a write of a Go
   map while another goroutine writes it is a data race, whose value is not
   defined. *)

\* the names and the decoders the goroutines register and look up
RegistryNames == { <<"s", "i", "m", "p", "l", "e">>, <<"j", "s", "o", "n">> }

GoroutineOps ==
  {[kind |-> "RegisterEncoding", name |-> n, dec |-> d] :
     n \in RegistryNames, d \in {"struct", "test"}} \cup
  {[kind |-> "register", name |-> n, dec |-> "nil"] : n \in RegistryNames}

\* where the goroutine starts as it would be if register read the map without
\* the mutex
firstStepBare(op) == IF op.kind = "register" THEN "map" ELSE "Lock"

\* where a goroutine with the operation op starts: both operations lock the
\* mutex first
firstStep(op) == "Lock"

\* a value that a data race may leave
Torn == "torn"

\* the goroutine g is in the map: between the start and the end of its read
\* or write
InMap(gs, g) == gs[g].pc = "inmap"

\* the access of g to the map races with that of another goroutine
Races(gs, g) ==
  \E h \in DOMAIN gs \ {g} :
    InMap(gs, h) /\ "RegisterEncoding" \in {gs[g].op.kind, gs[h].op.kind}

InitRegistry ==
  /\ f = ZeroFlags
  /\ fields = Defaults
  /\ sets = [s \in SetIds |-> <<>>]
  /\ decoders = (<<"s", "i", "m", "p", "l", "e">> :> "simple")
  /\ decoderMu = 0
  /\ goroutines \in [1..MaxGoroutines ->
                        {[pc |-> firstStep(op), op |-> op, got |-> "nil", raced |-> FALSE] :
                           op \in GoroutineOps}]
  /\ ret = Ret("init", "ok", NoErr)
  /\ nops = 0

\* decoderMu.Lock() by the goroutine g
Lock(g) ==
  /\ goroutines[g].pc = "Lock"
  /\ decoderMu = 0
  /\ decoderMu' = g
  /\ goroutines' = [goroutines EXCEPT ![g].pc = "map"]
  /\ UNCHANGED <<f, fields, sets, decoders, ret, nops>>

\* g starts its access to the map: decoders[name] = dec, or
\* decoder, ok := decoders[tag]
StartAccess(g) ==
  /\ goroutines[g].pc = "map"
  /\ goroutines' = [goroutines EXCEPT ![g].pc = "inmap",
                                       ![g].raced = Races(goroutines, g)]
  /\ UNCHANGED <<f, fields, sets, decoders, decoderMu, ret, nops>>

\* g ends decoders[name] = dec; ret.calls is the order of the writes
EndWrite(g) ==
  /\ goroutines[g].pc = "inmap" /\ goroutines[g].op.kind = "RegisterEncoding"
  /\ \E v \in IF goroutines[g].raced \/ Races(goroutines, g)
               THEN {goroutines[g].op.dec, Torn} ELSE {goroutines[g].op.dec} :
        decoders' = Put(decoders, goroutines[g].op.name, v)
  /\ goroutines' = [goroutines EXCEPT ![g].pc = "Unlock",
                                       ![g].raced = @ \/ Races(goroutines, g)]
  /\ ret' = [ret EXCEPT !.calls = Append(@, [g |-> g, name |-> goroutines[g].op.name,
                                              dec |-> goroutines[g].op.dec])]
  /\ UNCHANGED <<f, fields, sets, decoderMu, nops>>

\* g ends decoder, ok := decoders[tag]
EndRead(g) ==
  /\ goroutines[g].pc = "inmap" /\ goroutines[g].op.kind = "register"
  /\ \E v \in (IF goroutines[g].op.name \in DOMAIN decoders
                THEN {decoders[goroutines[g].op.name]} ELSE {"none"}) \cup
               (IF goroutines[g].raced \/ Races(goroutines, g) THEN {Torn} ELSE {}) :
        goroutines' = [goroutines EXCEPT ![g].pc = "Unlock", ![g].got = v,
                                         ![g].raced = @ \/ Races(goroutines, g)]
  /\ UNCHANGED <<f, fields, sets, decoders, decoderMu, ret, nops>>

\* decoderMu.Unlock() by the goroutine g
Unlock(g) ==
  /\ goroutines[g].pc = "Unlock"
  /\ decoderMu' = 0
  /\ goroutines' = [goroutines EXCEPT ![g].pc = "done"]
  /\ UNCHANGED <<f, fields, sets, decoders, ret, nops>>

NextRegistry ==
  \E g \in 1..MaxGoroutines :
    Lock(g) \/ StartAccess(g) \/ EndWrite(g) \/ EndRead(g) \/ Unlock(g)

SpecRegistry == InitRegistry /\ [][NextRegistry]_vars

-----------------------------------------------------------------------------
(* A list of strings among the options.  The structure lopts has a string,
   a list and a Flags; the file L names both flags, the file N the string
   only. *)

\* the fields of the option structure lopts
ListDefaults == [Name |-> <<"f", "r", "e", "d">>, List |-> <<>>]

InitReplay ==
  /\ f = ZeroFlags
  /\ fields = ListDefaults
  /\ sets = [s \in SetIds |-> <<>>]
  /\ decoders = (<<"s", "i", "m", "p", "l", "e">> :> "simple")
  /\ decoderMu = 0
  /\ goroutines = <<>>
  /\ ret = Ret("init", "ok", NoErr)
  /\ nops = 0

\* the values passed to Flags.Set
ReplayValues == { <<"L">>, <<"N">>, <<"C">>, <<"X">>, <<"?", "M">> }

\* the argument lists passed to Getopt
ReplayArgs ==
  { << Arg(<<"l", "i", "s", "t">>, <<"b">>) >>,
    << Arg(<<"f", "l", "a", "g", "s">>, <<"L">>) >>,
    << Arg(<<"n", "a", "m", "e">>, <<"b", "o", "b">>), Arg(<<"f", "l", "a", "g", "s">>, <<"N">>) >> }

NextReplay ==
  \/ DoRegister("lopts")
  \/ DoIgnoreUnknown
  \/ \E value \in ReplayValues, rev \in BOOLEAN : DoSet(value, rev)
  \/ \E rev \in BOOLEAN : DoRescan(<<>>, "cl", rev)
  \/ \E args \in ReplayArgs, rev \in BOOLEAN : DoGetopt(args, rev)

SpecReplay == InitReplay /\ [][NextReplay]_vars

-----------------------------------------------------------------------------
(* Properties *)

\* the tree that the sets bound under name read in the tree m: m itself for
\* the empty name, the sub-tree of the key name otherwise
ScopeOf(m, name) ==
  IF name = <<>> THEN m
  ELSE IF name \in DOMAIN m /\ m[name].t = "map" THEN m[name].m
  ELSE EmptyTree

Scope(name) == ScopeOf(f.m, name)

\* the key of the tree sc that names the option o: its long name when that is
\* a key, its short name otherwise
KeyOf(o, sc) == IF o.long # <<>> /\ o.long \in DOMAIN sc THEN o.long ELSE <<o.short>>

\* the tree sc names the option o
Named(o, sc) == KeyOf(o, sc) \in DOMAIN sc

\* the option o holds a value of its own; a Flags or Help option acts when
\* it is seen
Plain(o) == o.kind \notin {"flags", "help"}

\* the value that the text s gives to an option of the kind
TextValue(kind, s) == valueSet(kind, <<>>, s)

\* C1: a flag that was given on the command line holds the command-line
\* value whenever the overlay tree also names it in the scope of its set, in
\* whatever order the overlay and the command line were processed, for the
\* top-level scope and for the named ones.
C1_CommandLineWins ==
  \A k \in 1..Len(f.Sets) : \A i \in 1..Len(sets[f.Sets[k].Set]) :
    LET o == sets[f.Sets[k].Set][i]
    IN (o.count > 0 /\ Plain(o) /\ Named(o, Scope(f.Sets[k].Name)))
         => fields[o.fld] = TextValue(o.kind, o.cmd).v

\* the last operation applied the overlay and returned no error
Applied(r) == r.op \in {"Set", "Getopt"} /\ r.stage = "applied" /\ r.out = "ok"

\* the three layers in the Flags ff, the sets ss and the fields flds
Layers(ff, ss, flds) ==
  \A i \in 1..Len(ss["cl"]) :
    LET o == ss["cl"][i]
        t == valueText(ff.m[KeyOf(o, ff.m)])
    IN /\ Plain(o) /\ o.count > 0
            => flds[o.fld] = TextValue(o.kind, o.cmd).v
       /\ (/\ Plain(o) /\ o.count = 0 /\ Named(o, ff.m)
           /\ t.r = "ok" /\ TextValue(o.kind, t.s).ok)
            => flds[o.fld] = TextValue(o.kind, t.s).v
       /\ Plain(o) /\ o.count = 0 /\ ~Named(o, ff.m)
            => flds[o.fld] = Defaults[o.fld]

\* the caller bound no second set to the top-level scope of the Flags ff
OneRootSet(ff) == \A k \in 1..Len(ff.Sets) : ff.Sets[k].Set = "s2" => ff.Sets[k].Name # <<>>

\* C2: once the overlay was applied without an error and the command line was
\* parsed, in either order, every flag of the registered structure that the
\* command line supplied holds the command-line value, every other flag that
\* the overlay names with a value its type accepts holds the overlay value,
\* and a flag that neither supplies keeps its default.
C2_ThreeLayers ==
  [][ (/\ OneRootSet(f')
       /\ \/ Applied(ret')
          \/ Applied(ret) /\ ret'.op = "Getopt" /\ ret'.out = "ok" /\ ret'.stage = "none")
        => Layers(f', sets', fields') ]_vars

\* the tree decoded from the file B: name=bob and child.name=jim
TreeB == Decoded[<<"B">>].m

\* the structure opts is bound to the top-level scope and the structure sub
\* to the scope child, and the command line gave no flag
RootAndChild ==
  /\ f.Sets = << [Name |-> <<>>, Set |-> "cl"],
                 [Name |-> <<"c", "h", "i", "l", "d">>, Set |-> "s2"] >>
  /\ Len(sets["s2"]) = 1 /\ sets["s2"][1].fld = "cName"
  /\ \A i \in 1..Len(sets["cl"]) : sets["cl"][i].count = 0

\* C3: every value that Set applies to a flag is the value of a key of the
\* scope of the flag's set (the top level for the empty name, the sub-tree of
\* the set's name otherwise) that is the flag's long or short name; and with
\* opts at the top level, sub under child and the tree {name: bob, child:
\* {name: jim}}, Set makes opts.Name bob and sub.Name jim and reports no
\* unknown key.
C3_NamedSubSets ==
  (ret.op = "Set" /\ ret.stage = "applied") =>
    /\ \A j \in 1..Len(ret.calls) :
         LET c == ret.calls[j]
             o == sets[c.set][c.i]
             sc == Scope(f.Sets[c.b].Name)
         IN /\ f.Sets[c.b].Set = c.set
            /\ c.key \in {o.long, <<o.short>>} \cap DOMAIN sc
            /\ valueText(sc[c.key]) = [r |-> "ok", s |-> c.s]
    /\ (RootAndChild /\ f.m = TreeB) =>
         /\ fields.Name = <<"b", "o", "b">>
         /\ fields.cName = <<"j", "i", "m">>
         /\ ret.err = NoErr

\* Set has applied name=bob to opts and child.name=jim to sub
C3_Witness ==
  /\ ret.op = "Set" /\ ret.stage = "applied" /\ ret.value = <<"B">>
  /\ RootAndChild /\ f.m = TreeB
  /\ Len(ret.calls) = 2
  /\ fields.Name = <<"b", "o", "b">> /\ fields.cName = <<"j", "i", "m">>

\* the elements of a sequence
Range(seq) == {seq[j] : j \in 1..Len(seq)}

\* the sequence of strings is in strictly increasing lexical order
Sorted(seq) == \A i, j \in 1..Len(seq) : i < j => StrLess(seq[i], seq[j])

\* the options of the sets bound under name
BoundOptions(name) ==
  UNION {Range(sets[f.Sets[k].Set]) : k \in {x \in 1..Len(f.Sets) : f.Sets[x].Name = name}}

\* the scopes of the accumulated tree: the top level and every nested map
Scopes == {<<>>} \cup {k \in DOMAIN f.m : f.m[k].t = "map"}

\* the keys of each scope that are the long or the short name of a flag of
\* a set bound under the scope's name
Matched ==
  [name \in Scopes |->
     {k \in DOMAIN Scope(name) : \E o \in BoundOptions(name) : k = o.long \/ k = <<o.short>>}]

\* the names of the keys of the tree that are not in used, which gives the
\* keys used in each scope
NamesLeft(used) ==
  {<<"-", "-">> \o k : k \in {x \in DOMAIN f.m \ used[<<>>] : f.m[x].t # "map"}} \cup
  UNION {{<<"-", "-">> \o k \o <<".">> \o c : c \in DOMAIN f.m[k].m \ used[k]} :
           k \in {x \in DOMAIN f.m : f.m[x].t = "map"}}

\* what Set returns when names is the set of the unknown names
ReportsUnknown(names) ==
  IF f.IgnoreUnknown \/ names = {} THEN ret.err = NoErr
  ELSE /\ ret.err.kind = "unknown"
       /\ Range(ret.err.names) = names
       /\ Sorted(ret.err.names)

\* C4 as stated: when IgnoreUnknown is false, the error that Set returns
\* lists exactly the keys that are neither the long nor the short name of a
\* flag in scope, sorted; Set returns nil when there is no such key or
\* IgnoreUnknown is true.
C4_UnknownKeysAsStated ==
  (ret.op = "Set" /\ ret.stage = "applied" /\ ret.err.kind # "notstr")
    => ReportsUnknown(NamesLeft(Matched))

\* the options that Set visits for the scope name, in the order of the visit,
\* from the k-th element of f.Sets
RECURSIVE Visited(_, _)
Visited(name, k) ==
  IF k > Len(f.Sets) THEN <<>>
  ELSE LET opts == sets[f.Sets[k].Set]
           n == Len(opts)
       IN (IF f.Sets[k].Name = name
           THEN [j \in 1..n |-> opts[IF ret.rev THEN n + 1 - j ELSE j]]
           ELSE <<>>) \o Visited(name, k + 1)

\* the keys that the options opts use up, one after the other: an option
\* uses its long name when that is a key still there, else its short name
RECURSIVE Consumed(_, _)
Consumed(keys, opts) ==
  IF opts = <<>> THEN {}
  ELSE LET o == opts[1]
           k == IF o.long # <<>> /\ o.long \in keys THEN {o.long}
                ELSE {<<o.short>>} \cap keys
       IN k \cup Consumed(keys \ k, Tail(opts))

\* the keys of each scope that the visit uses up
ConsumedIn == [name \in Scopes |-> Consumed(DOMAIN Scope(name), Visited(name, 1))]

\* C4, amended: the error lists exactly the keys that no flag used up, where
\* each visited flag uses up one key of its scope, its long name when that is
\* a key and its short name otherwise; the list is sorted; Set returns nil
\* when no key is left or IgnoreUnknown is true.
C4_UnknownKeys ==
  (ret.op = "Set" /\ ret.stage = "applied" /\ ret.err.kind # "notstr")
    => ReportsUnknown(NamesLeft(ConsumedIn))

\* Set has listed a top-level key, a nested key and the short name of a flag
\* whose long name is a key as well
C4_Witness ==
  /\ ret.op = "Set" /\ ret.stage = "applied" /\ ret.err.kind = "unknown"
  /\ ~f.IgnoreUnknown
  /\ {<<"-", "-", "n">>, <<"-", "-", "z", "z">>,
      <<"-", "-", "c", "h", "i", "l", "d", ".", "y">>} \subseteq Range(ret.err.names)
  /\ <<"-", "-", "c", "h", "i", "l", "d", ".", "n", "a", "m", "e">> \notin Range(ret.err.names)

\* the step is a call of Set that decoded a file and merged its tree r.dec
Merged(r) == r.op = "Set" /\ r.stage = "applied" /\ r.value # <<>>

\* C5: when both the accumulated tree and the tree of a later file hold a
\* nested map under the same key, the maps are merged key by key: a nested
\* key of the later file overrides, every other nested key of the accumulated
\* tree is kept.
C5_NestedMerge ==
  [][ Merged(ret') =>
        \A k \in DOMAIN f.m \cap DOMAIN ret'.dec :
          (f.m[k].t = "map" /\ ret'.dec[k].t = "map") =>
            /\ f'.m[k].t = "map"
            /\ \A c \in DOMAIN f.m[k].m \cup DOMAIN ret'.dec[k].m :
                 /\ c \in DOMAIN f'.m[k].m
                 /\ f'.m[k].m[c] = IF c \in DOMAIN ret'.dec[k].m THEN ret'.dec[k].m[c]
                                   ELSE f.m[k].m[c] ]_vars

\* the calls of Value.Set in r made for the top-level key k
CallsFor(r, k) ==
  {j \in 1..Len(r.calls) : f.Sets[r.calls[j].b].Name = <<>> /\ r.calls[j].key = k}

\* C6: when the tree B of a later file is merged into the accumulated tree
\* A, a top-level key of both that is no map takes the value of B, which is
\* the value then applied to the unseen flag of that name, and a key of A
\* alone keeps its value.  (The flag is applied unless Set stopped at a value
\* of an unsupported type or the value has no text.)
C6_TopLevelMerge ==
  [][ Merged(ret') =>
        LET B == ret'.dec
        IN /\ \A k \in DOMAIN f.m \ DOMAIN B :
                k \in DOMAIN f'.m /\ f'.m[k] = f.m[k]
           /\ \A k \in DOMAIN f.m \cap DOMAIN B :
                (f.m[k].t # "map" /\ B[k].t # "map") =>
                  /\ f'.m[k] = B[k]
                  /\ \A j \in CallsFor(ret', k) :
                       valueText(B[k]) = [r |-> "ok", s |-> ret'.calls[j].s]
                  /\ (/\ ret'.err.kind # "notstr"
                      /\ valueText(B[k]).r = "ok"
                      /\ \E o \in BoundOptions(<<>>) : o.long = k
                      /\ \A o \in BoundOptions(<<>>) :
                           (o.long = k \/ <<o.short>> = k) => o.count = 0)
                       => CallsFor(ret', k) # {} ]_vars

\* Set has merged the file B into the tree of the file A: name is in both
\* and is now bob, the value applied to the flag; int is in A alone
C6_Witness ==
  /\ ret.op = "Set" /\ ret.stage = "applied" /\ ret.value = <<"B">>
  /\ f.m[<<"n", "a", "m", "e">>] = Str(<<"b", "o", "b">>)
  /\ <<"i", "n", "t">> \in DOMAIN f.m /\ f.m[<<"i", "n", "t">>] = Str(<<"4", "2">>)
  /\ \E j \in 1..Len(ret.calls) : ret.calls[j].s = <<"b", "o", "b">>
  /\ fields.Name = <<"b", "o", "b">> /\ fields.Int = 42

\* C7: Validate and RegisterSet never panic: for a value that is no pointer
\* to a struct, a malformed getopt tag or a field of an unsupported type they
\* return an error.
C7_NoPanic ==
  (ret.op \in {"Validate", "RegisterSet"} /\ ret.struct \in {"notptr", "badtag", "badtype"})
    => ret.out = "error"

\* C8: when a flag's Value.Set rejects the text of the overlay value, Set
\* returns an error.
C8_ValueRejected ==
  (ret.op = "Set" /\ \E j \in 1..Len(ret.calls) : ~ret.calls[j].ok)
    => ret.err # NoErr /\ ret.err.kind # "unknown"

\* the fields are those of before the call but for the options of the calls
\* made, which hold the value of the text of their last call
OnlyCalls(before, after, calls) ==
  \A fld \in DOMAIN after :
    LET js == {j \in 1..Len(calls) : sets[calls[j].set][calls[j].i].fld = fld}
        last == calls[CHOOSE j \in js : \A x \in js : x <= j]
    IN after[fld] = IF js = {} THEN before[fld]
                    ELSE valueSet(sets[last.set][last.i].kind, before[fld], last.s).v

\* C9: when MarshalText of an overlay value returns an error, Set returns
\* that error and modifies no flag for the key.
C9_MarshalError ==
  [][ (ret'.op = "Set" /\ ret'.tmerr # <<>>) =>
        /\ ret'.err.kind = "marshal"
        /\ \A j \in 1..Len(ret'.calls) : ret'.calls[j].key \notin Range(ret'.tmerr)
        /\ OnlyCalls(fields, fields', ret'.calls) ]_vars

\* the place of the option i of the k-th set in the order of the visit
Place(k, i, rev) ==
  <<k, IF rev THEN Len(sets[f.Sets[k].Set]) + 1 - i ELSE i>>

Before(p, q) == p[1] < q[1] \/ (p[1] = q[1] /\ p[2] < q[2])

PathOf(v) == IF v[1] = "?" THEN Tail(v) ELSE v

\* Set(value, nil) on the Flags ff gets as far as reading a file
ReadsFile(ff, value) ==
  /\ ff.opt # NilOpt
  /\ expand(value) \notin {<<>>, <<"?">>, rescanFlags}

\* C11: when the file cannot be read, Set returns nil for a value with a
\* leading "?" and an error for a value without it; either way the recorded
\* path, the accumulated tree and the value of every flag are as before, and
\* no flag was visited.
C11_MissingFile ==
  [][ (/\ ret'.op = "Set" /\ ReadsFile(f, ret'.value)
       /\ PathOf(expand(ret'.value)) \notin DOMAIN Files)
        => /\ IF expand(ret'.value)[1] = "?" THEN ret'.err = NoErr
              ELSE ret'.err # NoErr /\ ret'.err.kind = "read"
           /\ f' = f /\ fields' = fields /\ sets' = sets
           /\ ret'.stage = "nofile" /\ ret'.calls = <<>> ]_vars

\* Set has failed to read the file M after the file A was applied: the path
\* is still A and the tree and the flags are those of A
C11_Witness ==
  /\ ret.op = "Set" /\ ret.value = <<"M">> /\ ret.err.kind = "read"
  /\ f.path = <<"A">> /\ <<"i", "n", "t">> \in DOMAIN f.m
  /\ fields.Int = 42

\* the expanded value is empty or the bare "?"
IsEmptyValue(v) == v = <<>> \/ v = <<"?">>

\* the command line args gives nothing but empty values to the Flags option
\* of the set ss
OnlyEmptyFlags(ss, args) ==
  /\ args # <<>>
  /\ \A j \in 1..Len(args) :
       /\ lookupLong(ss, args[j].name) # 0
       /\ ss[lookupLong(ss, args[j].name)].kind = "flags"
       /\ IsEmptyValue(expand(args[j].val))

\* C12: Set with a value that expands to the empty string or to "?" returns
\* nil and leaves the path, the accumulated tree, the bound sets and the
\* flags as they were: called with a nil option, registered or not, and
\* called by the command-line parser with the option it has just seen.
C12_EmptyValue ==
  [][ /\ (ret'.op = "Set" /\ IsEmptyValue(expand(ret'.value)))
           => /\ ret'.err = NoErr /\ ret'.stage = "empty" /\ ret'.calls = <<>>
              /\ f' = f /\ fields' = fields /\ sets' = sets
      /\ (ret'.op = "Getopt" /\ OnlyEmptyFlags(sets["cl"], ret'.args))
           => /\ ret'.err = NoErr /\ ret'.stage = "empty" /\ ret'.calls = <<>>
              /\ f' = f /\ fields' = fields ]_vars

\* Set has returned nil for a value that expands to the empty string on a
\* Flags that was never registered and has a set bound to it
C12_Witness ==
  /\ ret.op = "Set" /\ ret.value = <<"$", "{", "V", "3", "}">> /\ ret.err = NoErr
  /\ f.opt = NilOpt /\ f.Sets # <<>>

\* C13: on a Flags that is not registered as an option, Set called with a
\* nil option and a value that expands to anything but the empty string and
\* "?", the optional form "?path" included, returns the error "not registered
\* as an option" before it reads a file, and changes nothing; so does Rescan,
\* which calls Set with a nil option.
C13_NotRegistered ==
  [][ (/\ f.opt = NilOpt
       /\ \/ ret'.op = "Set" /\ ~IsEmptyValue(expand(ret'.value))
          \/ ret'.op = "Rescan")
        => /\ ret'.err = [kind |-> "notreg"]
           /\ ret'.stage = "notreg" /\ ret'.calls = <<>>
           /\ f' = f /\ fields' = fields /\ sets' = sets ]_vars

\* Set has refused the readable file A on a Flags that is no option, although
\* a set with a flag that the file names is bound to it
C13_Witness ==
  /\ ret.op = "Set" /\ ret.value = <<"A">> /\ ret.err = [kind |-> "notreg"]
  /\ f.opt = NilOpt /\ f.path = <<>> /\ f.m = EmptyTree
  /\ \E k \in 1..Len(f.Sets) : f.Sets[k].Name = <<>> /\ Len(sets[f.Sets[k].Set]) = 1
  /\ fields = Defaults

\* the calls in r that the visitor made to the Set of a Flags or Help option
NestedCalls(r) ==
  {j \in 1..Len(r.calls) : ~Plain(sets[r.calls[j].set][r.calls[j].i])}

\* C14: Set called with an option that was not seen returns nil and does
\* nothing.  So when a key of the overlay names a Flags or a Help option of a
\* bound set, the visitor's call of the option's Set returns nil, the key is
\* used up, and the call of Set that applied the overlay leaves the path and
\* the tree of its own file and nothing of the file that the key names.
C14_UnseenOption ==
  [][ (ret'.op = "Set" /\ ret'.stage = "applied")
        => /\ \A j \in NestedCalls(ret') :
                LET c == ret'.calls[j]
                IN /\ sets[c.set][c.i].count = 0
                   /\ c.ok
                   /\ c.key \notin DOMAIN ScopeOf(ret'.left, f.Sets[c.b].Name)
           /\ f'.path = PathOf(expand(ret'.value))
           /\ f'.m = mergemap(f.m, ret'.dec)
           /\ f'.Sets = f.Sets /\ sets' = sets
           /\ OnlyCalls(fields, fields', ret'.calls) ]_vars

\* Set has applied the file F, whose keys flags and help name the file B:
\* both keys were used up, the flag name has the value of F and nothing of B
\* was read
C14_Witness ==
  /\ ret.op = "Set" /\ ret.value = <<"F">> /\ ret.err = NoErr
  /\ Cardinality(NestedCalls(ret)) = 2
  /\ \A j \in NestedCalls(ret) : ret.calls[j].s = <<"B">> /\ ret.calls[j].ok
  /\ f.path = <<"F">> /\ DOMAIN f.m = {<<"f", "l", "a", "g", "s">>, <<"h", "e", "l", "p">>, <<"n", "a", "m", "e">>}
  /\ fields.Name = <<"f", "a", "y">>

\* the text of the value that the tree sc holds for the option o
TextFor(o, sc) == valueText(sc[KeyOf(o, sc)])

\* C15: Rescan(name, set) on a registered Flags reads no file and decodes
\* nothing: it leaves the path, the accumulated tree and the bound sets as
\* they were.  Unless it stops at a value of an unsupported type, it gives
\* every flag of the set that was not seen on the command line and that the
\* tree (the sub-tree of name when name is not empty) holds a text value for
\* that value, and leaves every other flag as it was.
C15_Rescan ==
  [][ (ret'.op = "Rescan" /\ f.opt # NilOpt)
        => /\ ret'.stage = "applied" /\ ret'.dec = EmptyTree
           /\ f' = f /\ sets' = sets
           /\ ret'.err.kind # "notstr" =>
                \A fld \in DOMAIN fields :
                  LET sc == ScopeOf(f.m, ret'.name)
                      os == {o \in Range(sets[ret'.set]) :
                               /\ o.fld = fld /\ Plain(o) /\ o.count = 0
                               /\ Named(o, sc) /\ TextFor(o, sc).r = "ok"}
                  IN /\ os = {} => fields'[fld] = fields[fld]
                     /\ \A o \in os :
                          fields'[fld] = valueSet(o.kind, fields[fld], TextFor(o, sc).s).v ]_vars

\* Rescan has given the flag of the structure sub, which was bound to no
\* scope when the file B was applied, the value of child.name
C15_Witness ==
  /\ ret.op = "Rescan" /\ ret.name = <<"c", "h", "i", "l", "d">> /\ ret.set = "s2"
  /\ f.m = TreeB /\ f.path = <<"B">>
  /\ f.Sets = << [Name |-> <<>>, Set |-> "cl"] >>
  /\ fields.Name = <<"b", "o", "b">> /\ fields.cName = <<"j", "i", "m">>

\* the encodings that the Flags fields of the structure i ask for
Encodings(i) ==
  {IF fld.enc = <<>> THEN <<"s", "i", "m", "p", "l", "e">> ELSE fld.enc :
     fld \in {x \in Range(Structs[i].fields) : x.kind = "flags"}}

\* C16: Validate and RegisterSet, which return what register returns, return
\* an error and do not panic for a structure whose Flags field has an encoding
\* tag that is not in the registry of decoders; and a Flags field with no
\* encoding tag gets the decoder registered as "simple".
C16_UnknownEncoding ==
  /\ (/\ ret.op \in {"Validate", "RegisterSet"}
      /\ \E e \in Encodings(ret.struct) : e \notin DOMAIN decoders)
       => ret.out = "error" /\ ret.err.kind = "unknown flags decoding type"
  /\ (/\ ret.op \in {"Validate", "RegisterSet", "Register"} /\ ret.out = "ok"
      /\ Encodings(ret.struct) = {<<"s", "i", "m", "p", "l", "e">>})
       => f.Decoder = decoders[<<"s", "i", "m", "p", "l", "e">>]

\* RegisterSet has returned an error for the structure whose Flags field has
\* the encoding bob; the field had become an option of the set by then
C16_Witness ==
  /\ ret.op = "RegisterSet" /\ ret.struct = "badenc" /\ ret.out = "error"
  /\ <<"b", "o", "b">> \notin DOMAIN decoders
  /\ Len(sets["s2"]) = 1 /\ ret.flags.opt = [set |-> "s2", i |-> 1]
  /\ ret.flags.Decoder = "nil"

\* the key path that the line assigns a value to
PathIn(line) ==
  SplitDot(TrimSpace(Slice(unescape(line), 0, Index(unescape(line), <<"=">>))))

\* the line is a comment, is blank or assigns a value to a name
WellFormed(line) ==
  \/ unescape(line) = <<>>
  \/ /\ Index(unescape(line), <<"=">>) > 0
     /\ Index(TrimSpace(Slice(unescape(line), 0, Index(unescape(line), <<"=">>))), <<" ">>) < 0

\* p is a proper prefix of q
ProperPrefix(p, q) == Len(p) < Len(q) /\ SubSeq(q, 1, Len(p)) = p

\* the data uses a key both as a scalar and as a nested table: one line
\* gives the key a value and another line gives a value to a key below it
UsesKeyBothWays(data) ==
  \E i, j \in 1..Len(data) :
    /\ unescape(data[i]) # <<>> /\ unescape(data[j]) # <<>>
    /\ ProperPrefix(PathIn(data[i]), PathIn(data[j]))

\* C17: for data whose lines are all well formed and that uses a key both as
\* a scalar and as a nested table, in either order of the lines, SimpleDecoder
\* returns the error "conflict on field" and no map.
C17_Conflict ==
  (/\ ret.op = "SimpleDecoder" /\ ret.out # "call"
   /\ \A i \in 1..Len(ret.arg) : WellFormed(ret.arg[i])
   /\ UsesKeyBothWays(ret.arg))
    => /\ ~ret.res.ok
       /\ ret.res.err = "conflict on field"
       /\ "m" \notin DOMAIN ret.res

\* the value substituted for the reference with the text body between the
\* braces: NAME or NAME:-DEFAULT
Substitute(body) ==
  LET z == Index(body, <<":", "-">>)
      name == IF z >= 0 THEN Slice(body, 0, z) ELSE body
      dflt == IF z >= 0 THEN From(body, z + 2) ELSE <<>>
  IN IF name \in DOMAIN Environ /\ Environ[name] # <<>> THEN Environ[name] ELSE dflt

\* the text of s after its first "${"
AfterOpen(s) == From(s, Index(s, <<"$", "{">>) + 2)

\* the first "${" of s opens a reference: it is not the escape "${$" and a
\* "}" follows
OpensSpan(s) ==
  /\ Index(s, <<"$", "{">>) >= 0
  /\ AfterOpen(s) # <<>> /\ AfterOpen(s)[1] # "$"
  /\ Index(AfterOpen(s), <<"}">>) >= 0

\* C18: expand returns a string without "${" as it is; and when the first
\* "${" of the string opens a reference ${NAME} or ${NAME:-DEFAULT}, closed
\* by the first "}" after it, the result is the text before it unchanged,
\* then the value of the variable NAME when that is set and not empty and
\* DEFAULT otherwise (the empty string without a default), then the expansion
\* of the text after the "}"; so every reference is replaced in turn.
C18_Expand ==
  (ret.op = "expand" /\ ret.out = "ok") =>
    LET s == ret.arg
        x == Index(s, <<"$", "{">>)
        y == Index(AfterOpen(s), <<"}">>)
    IN /\ x < 0 => ret.res = s
       /\ OpensSpan(s) =>
            ret.res = Slice(s, 0, x) \o Substitute(Slice(AfterOpen(s), 0, y))
                        \o expand(From(AfterOpen(s), y + 1))

\* expand has replaced a reference to a variable that is set to the empty
\* string by its default, between text that it copied
C18_Witness ==
  /\ ret.op = "expand" /\ ret.out = "ok"
  /\ ret.arg = <<"a", "$", "{", "V", "3", ":", "-", "m", "i", "s", "s", "i", "n", "g", "}">>
       \/ ret.arg = <<"$", "{", "V", "3", ":", "-", "m", "i", "s", "s", "i", "n", "g", "}">>
  /\ ret.res = <<"m", "i", "s", "s", "i", "n", "g">>

\* C19: expand goes over the string once, from left to right, and returns
\* for every string.  What it has emitted it does not scan again: for the
\* escape "${$" it emits "${" and goes on after the escape, so the "${" is no
\* reference whatever follows; a "${" with nothing after it or with no "}"
\* after it is emitted as it is, with the rest of the string; and the value
\* or the default substituted for a reference stands in the result as it is,
\* also when it holds a "${X}" itself.
C19_SinglePass ==
  (ret.op = "expand" /\ ret.out = "ok") =>
    LET s == ret.arg
        x == Index(s, <<"$", "{">>)
        rest == AfterOpen(s)
    IN /\ (x >= 0 /\ rest = <<>>) => ret.res = s
       /\ (x >= 0 /\ rest # <<>> /\ rest[1] = "$")
            => ret.res = Slice(s, 0, x) \o <<"$", "{">> \o expand(Tail(rest))
       /\ (x >= 0 /\ rest # <<>> /\ rest[1] # "$" /\ Index(rest, <<"}">>) < 0)
            => ret.res = s
       /\ OpensSpan(s)
            => HasPrefixAt(ret.res, x, Substitute(Slice(rest, 0, Index(rest, <<"}">>))))

\* expand has replaced the reference to Q by the value of Q, which is ${P},
\* and has not replaced that in turn
C19_Witness ==
  /\ ret.op = "expand" /\ ret.out = "ok"
  /\ ret.arg = <<"$", "{", "Q", "}">>
  /\ ret.res = <<"$", "{", "P", "}">>

\* the words of s, which the spaces of s separate
RECURSIVE Words(_)
Words(s) ==
  IF s = <<>> THEN <<>>
  ELSE IF Index(s, <<" ">>) < 0 THEN <<s>>
  ELSE IF Index(s, <<" ">>) = 0 THEN Words(Tail(s))
  ELSE <<Slice(s, 0, Index(s, <<" ">>))>> \o Words(From(s, Index(s, <<" ">>) + 1))

\* the name of the option token w with its dashes, and its placeholder
TokenName(w) == IF Index(w, <<"=">>) < 0 THEN w ELSE Slice(w, 0, Index(w, <<"=">>))
Placeholder(w) == IF Index(w, <<"=">>) < 0 THEN <<>> ELSE From(w, Index(w, <<"=">>) + 1)

\* the word w is a dash or two dashes alone; with eqBare, also when an "="
\* with nothing after it follows the dashes
BareDashes(w, eqBare) ==
  /\ TokenName(w) \in {<<"-">>, <<"-", "-">>}
  /\ IF eqBare THEN Placeholder(w) = <<>> ELSE w = TokenName(w)

\* the option tokens of the words ws: the leading words that start with a
\* dash, up to the first that is bare
RECURSIVE OptionRun(_, _)
OptionRun(ws, eqBare) ==
  IF ws = <<>> \/ ws[1][1] # "-" \/ BareDashes(ws[1], eqBare) THEN <<>>
  ELSE <<ws[1]>> \o OptionRun(Tail(ws), eqBare)

Dashes(w) == Len(argPrefix(TokenName(w)))
Longs(run) == {i \in DOMAIN run : Dashes(run[i]) = 2}
Shorts(run) == {i \in DOMAIN run : Dashes(run[i]) = 1}
Params(run) == {i \in DOMAIN run : Placeholder(run[i]) # <<>>}

\* the tag of the words ws is empty or one bare word
BareTag(ws, eqBare) ==
  ws = <<>> \/ (Len(ws) = 1 /\ BareDashes(ws[1], eqBare))

\* the tag of the words ws with the option tokens run has one of the errors
TagError(ws, run) ==
  \/ Cardinality(Longs(run)) > 1
  \/ Cardinality(Shorts(run)) > 1
  \/ Cardinality(Params(run)) > 1
  \/ \E i \in Shorts(run) : Len(TokenName(run[i])) > 2
  \/ \E i \in DOMAIN run : Dashes(run[i]) >= 3
  \/ \E i \in DOMAIN run : TokenName(run[i]) \in {<<"-">>, <<"-", "-">>}
  \/ run = <<>> /\ ws # <<>>

\* the descriptor d has a name, and the names and the placeholder of the
\* option tokens run
Describes(d, run) ==
  /\ d.long # <<>> \/ d.short # ""
  /\ \A i \in Longs(run) : d.long = From(TokenName(run[i]), 2)
  /\ \A i \in Shorts(run) : d.short = TokenName(run[i])[2]
  /\ Longs(run) = {} => d.long = <<>>
  /\ Shorts(run) = {} => d.short = ""
  /\ \A i \in Params(run) : d.param = Placeholder(run[i])
  /\ Params(run) = {} => d.param = <<>>

\* parseTag returned d for the tag of the words ws, as the three outcomes say
ThreeOutcomes(d, ws, eqBare) ==
  IF BareTag(ws, eqBare) THEN d.res = "nil"
  ELSE IF TagError(ws, OptionRun(ws, eqBare)) THEN d.res = "err"
  ELSE d.res = "tag" /\ Describes(d, OptionRun(ws, eqBare))

\* C20: parseTag returns (nil, nil) for a tag that is empty, all
\* white space or a bare - or --; an error for a tag with two long names, two
\* short names, two placeholders, a single-dash token of more than one
\* character, a token that starts with ---, a placeholder with no name, or
\* help text and no option token; and for every other tag a descriptor with a
\* long or a short name, at most one of each and at most one placeholder.
C20_ParseTag ==
  (ret.op = "parseTag" /\ ret.out = "ok") =>
    ThreeOutcomes(ret.res, Words(TrimSpace(ret.arg)), FALSE)

\* apart from that, the three outcomes are those of the code: they hold when
\* - or -- with an "=" and no placeholder after it (-= or --=) counts as the
\* bare - or --
OutcomesButEmptyPlaceholder ==
  (ret.op = "parseTag" /\ ret.out = "ok") =>
    ThreeOutcomes(ret.res, Words(TrimSpace(ret.arg)), TRUE)

\* the error err lists the key k as unknown
ListsUnknown(err, k) ==
  err.kind = "unknown" /\ (<<"-", "-">> \o k) \in Range(err.names)

\* C21: when two sets are bound to the Flags under the same Name and both
\* have a flag of the same name, which is a key of the tree of that Name, a Set
\* that reaches the apply phase gives the value of the key to no flag of the
\* later set: the only flags modified are those the key's value was given to,
\* so the flag of the later set keeps its value, and the key is not listed as
\* unknown.
C21_FirstSetOnly ==
  [][ (ret'.op = "Set" /\ ret'.stage = "applied") =>
        /\ OnlyCalls(fields, fields', ret'.calls)
        /\ \A b1, b2 \in 1..Len(f.Sets) :
             (b1 < b2 /\ f.Sets[b1].Name = f.Sets[b2].Name) =>
               \A i1 \in 1..Len(sets[f.Sets[b1].Set]), i2 \in 1..Len(sets[f.Sets[b2].Set]) :
                 LET o1 == sets[f.Sets[b1].Set][i1]
                     o2 == sets[f.Sets[b2].Set][i2]
                 IN (/\ o1.long # <<>> /\ o1.long = o2.long
                     /\ o1.long \in DOMAIN ScopeOf(f'.m, f.Sets[b1].Name))
                      => /\ \A j \in 1..Len(ret'.calls) :
                              ~(ret'.calls[j].b = b2 /\ ret'.calls[j].key = o1.long)
                         /\ ~ListsUnknown(ret'.err, o1.long) ]_vars

\* Set has given the value of the key name to the flag of the first of two
\* sets bound under the empty Name, and the flag name of the second set has
\* kept its value
C21_Witness ==
  /\ ret.op = "Set" /\ ret.stage = "applied" /\ ret.value = <<"A">>
  /\ Len(f.Sets) = 2 /\ f.Sets[1] = [Name |-> <<>>, Set |-> "cl"]
  /\ f.Sets[2] = [Name |-> <<>>, Set |-> "s2"]
  /\ Len(sets["cl"]) > 0 /\ Len(sets["s2"]) = 1 /\ sets["s2"][1].fld = "cName"
  /\ \E j \in 1..Len(ret.calls) : ret.calls[j].b = 1 /\ ret.calls[j].key = <<"n", "a", "m", "e">>
  /\ fields.Name = <<"h", "e", "l", "l", "o">>
  /\ fields.cName = Defaults.cName

\* C22: when the file that Set reads is empty after trimming, Set returns nil
\* and records the path, whatever decoder is bound (the decoder that fails on
\* all data too): the accumulated tree and the value of every flag are as
\* before, no flag was visited and nothing was decoded.
C22_EmptyFile ==
  [][ (/\ ret'.op = "Set" /\ ReadsFile(f, ret'.value)
       /\ PathOf(expand(ret'.value)) \in DOMAIN Files
       /\ IsBlank(Files[PathOf(expand(ret'.value))]))
        => /\ ret'.err = NoErr /\ ret'.stage = "blank"
           /\ f' = [f EXCEPT !.path = PathOf(expand(ret'.value))]
           /\ fields' = fields /\ sets' = sets
           /\ ret'.calls = <<>> /\ ret'.dec = EmptyTree ]_vars

\* Set has returned nil for the empty file E with the failing decoder bound,
\* after the file A was applied: the tree and the flags are those of A
C22_Witness ==
  /\ ret.op = "Set" /\ ret.value = <<"E">> /\ ret.out = "ok" /\ ret.stage = "blank"
  /\ f.Decoder = "fail" /\ f.path = <<"E">>
  /\ <<"i", "n", "t">> \in DOMAIN f.m /\ fields.Int = 42

\* C23: when the decoder bound to the Flags returns an error for the data of
\* the file, Set returns an error made of the path of the file and the
\* decoder's error; the accumulated tree and the value of every flag are as
\* before the call, and no flag was visited.
C23_DecodeError ==
  [][ (/\ ret'.op = "Set" /\ ReadsFile(f, ret'.value)
       /\ PathOf(expand(ret'.value)) \in DOMAIN Files
       /\ ~IsBlank(Files[PathOf(expand(ret'.value))])
       /\ ~Decode(f.Decoder, PathOf(expand(ret'.value))).ok)
        => /\ ret'.out = "error" /\ ret'.err.kind = "decode"
           /\ ret'.err.path = PathOf(expand(ret'.value))
           /\ ret'.err.err = Decode(f.Decoder, PathOf(expand(ret'.value))).err
           /\ f'.m = f.m /\ fields' = fields /\ sets' = sets
           /\ ret'.calls = <<>> ]_vars

\* Set has returned the error of the failing decoder for the file A, after
\* the file B was merged: the tree is that of B and the flag int is as it was
C23_Witness ==
  /\ ret.op = "Set" /\ ret.value = <<"A">> /\ ret.err.kind = "decode"
  /\ ret.err.path = <<"A">> /\ ret.err.err = "tmErr"
  /\ f.Decoder = "fail" /\ f.m = TreeB
  /\ fields.Int = Defaults.Int

\* the methods of the values of the tests: *TM has MarshalText and String, *S
\* has String
HasMarshalText(v) == v.t = "tm"
HasString(v) == v.t \in {"tm", "st"}
MarshalFails(v) == v.V = <<"e", "r", "r", "o", "r">>

\* the texts of the calls that Set made for the key k
TextsFor(calls, k) == {calls[j].s : j \in {x \in 1..Len(calls) : calls[x].key = k}}

\* C24: the text that the visitor hands to a flag for a value of the tree is
\* the value's marshalled text when it has MarshalText (also when it has
\* String too), else what its String returns, else the string itself, else
\* the number in decimal, else true or false for a bool; so after the command
\* line named a file and testDecoder returned {tm, s, f, b, n}, the flags were
\* handed ":tmvalue", "svalue", "42", "true" and "false" and hold those values.
C24_TextOfValue ==
  /\ (ret.op = "valueText" /\ ret.out = "ok") =>
        LET v == ret.arg
        IN /\ (HasMarshalText(v) /\ ~MarshalFails(v))
                => ret.res = [r |-> "ok", s |-> <<":">> \o v.V]
           /\ (~HasMarshalText(v) /\ HasString(v)) => ret.res = [r |-> "ok", s |-> v.V]
           /\ v.t = "str" => ret.res = [r |-> "ok", s |-> v.s]
           /\ v.t = "num" => ret.res.r = "ok" /\ Atoi(ret.res.s) = [ok |-> TRUE, n |-> v.n]
                               /\ (Len(ret.res.s) > 1 => ret.res.s[1] # "0")
           /\ v.t = "bool" => ret.res = [r |-> "ok",
                                          s |-> IF v.b THEN <<"t", "r", "u", "e">>
                                                ELSE <<"f", "a", "l", "s", "e">>]
  /\ (ret.op = "Getopt" /\ ret.stage = "applied" /\ ret.dec = TestTree) =>
        /\ ret.out = "ok"
        /\ TextsFor(ret.calls, <<"t", "m">>) = {<<":", "t", "m", "v", "a", "l", "u", "e">>}
        /\ TextsFor(ret.calls, <<"s">>) = {<<"s", "v", "a", "l", "u", "e">>}
        /\ TextsFor(ret.calls, <<"f">>) = {<<"4", "2">>}
        /\ TextsFor(ret.calls, <<"b">>) = {<<"t", "r", "u", "e">>}
        /\ TextsFor(ret.calls, <<"n">>) = {<<"f", "a", "l", "s", "e">>}
        /\ fields = [TM |-> <<":", "t", "m", "v", "a", "l", "u", "e">>,
                     S |-> <<"s", "v", "a", "l", "u", "e">>, F |-> 42,
                     B |-> TRUE, N |-> FALSE]

\* the command line of TestDecoder has been parsed: testDecoder returned its
\* map and the five flags were handed their texts
C24_Witness ==
  /\ ret.op = "Getopt" /\ ret.stage = "applied" /\ ret.dec = TestTree
  /\ Len(ret.calls) = 5
  /\ fields.TM = <<":", "t", "m", "v", "a", "l", "u", "e">>

\* the writes of the name, in the order in which they were made
WritesOf(name) == {j \in 1..Len(ret.calls) : ret.calls[j].name = name}

\* the entry of the name before the goroutines started
EntryAtStart(name) == IF name = <<"s", "i", "m", "p", "l", "e">> THEN "simple" ELSE "none"

\* the goroutine g can take its next step
CanStep(g) ==
  goroutines[g].pc \in {"map", "inmap", "Unlock"} \/
  (goroutines[g].pc = "Lock" /\ decoderMu = 0)

\* C25: however the goroutines that call RegisterEncoding and those that
\* register a structure interleave, a goroutine is in the registry map only
\* while it holds decoderMu, so no access races with another; the mutex is
\* held only by a goroutine that goes on to release it, and is free when all
\* have returned, so some goroutine can always take a step until all have
\* returned; a lookup gets the entry as it was at the start or a decoder that
\* a RegisterEncoding of that name has written; and the entry of a name is the
\* decoder of the last write of that name.
C25_RegistrySafe ==
  goroutines # <<>> =>
    /\ \A g \in DOMAIN goroutines :
         /\ InMap(goroutines, g) => decoderMu = g
         /\ ~goroutines[g].raced /\ (InMap(goroutines, g) => ~Races(goroutines, g))
         /\ decoderMu = g => goroutines[g].pc \in {"map", "inmap", "Unlock"}
         /\ (goroutines[g].op.kind = "register" /\ goroutines[g].pc \in {"Unlock", "done"})
              => goroutines[g].got \in
                   {EntryAtStart(goroutines[g].op.name)} \cup
                   {ret.calls[j].dec : j \in WritesOf(goroutines[g].op.name)}
    /\ (\E g \in DOMAIN goroutines : goroutines[g].pc # "done")
         => \E g \in DOMAIN goroutines : CanStep(g)
    /\ (\A g \in DOMAIN goroutines : goroutines[g].pc = "done") => decoderMu = 0
    /\ \A name \in RegistryNames :
         IF WritesOf(name) = {}
         THEN (IF name \in DOMAIN decoders THEN decoders[name] ELSE "none") = EntryAtStart(name)
         ELSE decoders[name] =
                ret.calls[CHOOSE j \in WritesOf(name) : \A x \in WritesOf(name) : x <= j].dec

\* two goroutines have registered different decoders under the same name and
\* have returned: the entry is the decoder written last
C25_Witness ==
  /\ goroutines # <<>>
  /\ \A g \in DOMAIN goroutines : goroutines[g].pc = "done"
  /\ Len(ret.calls) = 2 /\ ret.calls[1].name = ret.calls[2].name
  /\ ret.calls[1].dec = "test" /\ ret.calls[2].dec = "struct"
  /\ decoders[ret.calls[1].name] = "struct"

\* the names under which sets are bound to the Flags
BoundNames == {f.Sets[k].Name : k \in 1..Len(f.Sets)}

\* C26: the error for unknown keys that Set returns lists no key of a
\* sub-tree whose name is bound by no element of Sets: such a sub-tree, the
\* flags of a sub-command that is not registered yet, is ignored.
C26_UnboundIgnored ==
  (ret.op = "Set" /\ ret.stage = "applied" /\ ret.err.kind = "unknown") =>
    \A k \in DOMAIN f.m :
      (f.m[k].t = "map" /\ k \notin BoundNames) =>
        \A sk \in DOMAIN f.m[k].m :
          (<<"-", "-">> \o k \o <<".">> \o sk) \notin Range(ret.err.names)

\* Validate(&opts) was called and, after it, Register(&opts)
ValidatedThenRegistered ==
  /\ Len(sets["tmp"]) = Len(Structs.opts.fields)
  /\ Len(sets["cl"]) = Len(Structs.opts.fields)
  /\ f.opt = [set |-> "cl", i |-> 5]

\* C27: after Validate(&opts) and Register(&opts), when the command line
\* gave a flag and named a file that names the flag too, the field holds the
\* command-line value once the command line is parsed: the set that Validate
\* made and threw away brings no overlay value over it.
C27_ValidateKeepsPrecedence ==
  (ret.op = "Getopt" /\ ret.stage = "applied" /\ ValidatedThenRegistered) =>
    \A i \in 1..Len(sets["cl"]) :
      LET o == sets["cl"][i]
      IN (o.count > 0 /\ Plain(o) /\ o.long \in DOMAIN f.m)
           => fields[o.fld] = TextValue(o.kind, o.cmd).v

\* C28: Rescan leaves the Flags as it found it, whether it returns an error
\* or not: Sets, the accumulated tree and the recorded path are those of
\* before the call, no option of a set was touched, and a field that changed
\* is the field of a flag of the rescanned set.
C28_RescanFrame ==
  [][ ret'.op = "Rescan" =>
        /\ f'.Sets = f.Sets /\ f'.m = f.m /\ f'.path = f.path
        /\ sets' = sets
        /\ \A fld \in DOMAIN fields :
             fields'[fld] # fields[fld]
               => \E o \in Range(sets[ret'.set]) : o.fld = fld ]_vars

\* Rescan of the set of the sub-command has returned the error for the key
\* name, which it left, after it gave child.name to the flag of the set; Sets
\* still holds the set of the command line alone
C28_Witness ==
  /\ ret.op = "Rescan" /\ ret.out = "error" /\ ret.set = "s2"
  /\ ret.name = <<"c", "h", "i", "l", "d">>
  /\ f.Sets = <<[Name |-> <<>>, Set |-> "cl"]>>
  /\ f.path = <<"B">> /\ f.m = TreeB
  /\ fields.cName = <<"j", "i", "m">>

\* the keys of the tree m, those of its nested maps included
TreeKeys(m) ==
  {<<k>> : k \in DOMAIN m} \cup
  UNION {{<<k, c>> : c \in DOMAIN m[k].m} : k \in {x \in DOMAIN m : m[x].t = "map"}}

\* a Set that returned an unrecognized-flags error is followed by a Set that
\* reaches the apply phase with the same sets and IgnoreUnknown false
SetAgain ==
  /\ ret.op = "Set" /\ ret.err.kind = "unknown"
  /\ ret'.op = "Set" /\ ret'.stage = "applied"
  /\ f'.Sets = f.Sets /\ sets' = sets /\ ~f'.IgnoreUnknown

TopKey(n) ==
  LET k == From(n, 2)
      d == Index(k, <<".">>)
  IN IF d < 0 THEN k ELSE Slice(k, 0, d)

VisitedSets(r, bound) ==
  IF r.op = "Rescan" THEN <<[Name |-> r.name, Set |-> r.set]>> ELSE bound

\* C30: a Set that reaches the apply phase, and a Rescan, apply the whole
\* accumulated tree: unless the call stops at a value that is no string or
\* number, a flag of a visited set that was not seen on the command line and
\* that only an earlier source names (the key is in the tree and not in the
\* tree decoded by the call) has its Value.Set called once more, with the
\* text of the earlier value; so a list, whose Set appends, gets the value
\* once more in each such call.
C30_Replay ==
  [][ (ret'.op \in {"Set", "Rescan"} /\ ret'.stage = "applied" /\ ret'.err.kind # "notstr") =>
        LET bound == VisitedSets(ret', f.Sets)
        IN \A b \in 1..Len(bound) :
             LET sc == ScopeOf(f'.m, bound[b].Name)
                 old == ScopeOf(f.m, bound[b].Name)
                 new == ScopeOf(ret'.dec, bound[b].Name)
             IN \A i \in 1..Len(sets[bound[b].Set]) :
                  LET o == sets[bound[b].Set][i]
                      k == KeyOf(o, sc)
                      js == {j \in 1..Len(ret'.calls) : ret'.calls[j].b = b /\ ret'.calls[j].i = i}
                  IN (/\ Plain(o) /\ o.count = 0
                      /\ Named(o, sc) /\ k \notin DOMAIN new
                      /\ TextFor(o, sc).r = "ok")
                       => /\ k \in DOMAIN old /\ sc[k] = old[k]
                          /\ Cardinality(js) = 1
                          /\ \A j \in js : /\ ret'.calls[j].key = k
                                             /\ ret'.calls[j].s = valueText(old[k]).s
                          /\ o.kind = "list" =>
                               fields'[o.fld] = Append(fields[o.fld], valueText(old[k]).s) ]_vars

\* the file L gave the list the value a, the file N, which does not name the
\* list, gave it once more and a Rescan a third time
C30_Witness ==
  /\ ret.op = "Rescan" /\ ret.stage = "applied"
  /\ f.path = <<"N">>
  /\ Len(sets["cl"]) = 3 /\ sets["cl"][2].kind = "list" /\ sets["cl"][2].count = 0
  /\ fields.List = << <<"a">>, <<"a">>, <<"a">> >>

====
